---- MODULE Spec2Model ----
(***************************************************************************)
(* A model of the core of echem-fairifier: the column inference of the     *)
(* data preview (ui/components.py), the vocabulary enrichment              *)
(* (core/emmo_integration.py) and the metadata validator                   *)
(* (core/validator.py).                                                    *)
(*                                                                         *)
(* Text is modelled by its characters where the code inspects characters   *)
(* (column names under regular expressions) and by whole strings where     *)
(* the code only compares or tests for emptiness.                          *)
(***************************************************************************)
EXTENDS Integers, Sequences, FiniteSets, TLC

VARIABLES
  df,          \* the uploaded table: a sequence of columns [name, cells]
  technique,   \* the technique argument of the preview
  columns,     \* the role map returned by _find_data_columns
  stage,       \* position of the preview: "uploaded", "found", "previewed"
  rows,        \* number of rows of the uploaded table
  shown,       \* what render_data_preview put on the page
  metadata,    \* the metadata record handed to the validator
  report,      \* what validate_metadata returned, or that it raised
  enriched,    \* what enrich_metadata_with_emmo returned, or that it raised
  before,      \* the record as it was when enrich was called
  cursor,      \* index in PathOrder of the key changed last
  edits,       \* number of keys changed so far
  again,       \* what a second validate_metadata call on the record returned
  boxes,       \* what render_validation_results showed for the report
  resource,    \* the schema file at schema_path, as the constructor finds it
  validator,   \* the ECDataValidator: whether it was built, and its schema
  query,       \* a call of the vocabulary: operation, text, category
  answer,      \* what the vocabulary returned for the query
  lookup,      \* a call of the technique registry: operation and id
  fetched,     \* what the registry returned for the lookup
  candidate,   \* a text handed to validate_orcid or validate_doi
  verdict,     \* what the identifier check returned
  uploader,    \* the file in the upload widget of the page, if any
  session,     \* st.session_state of the application
  page,        \* what the last run of main() put on the page
  bundle,      \* the FAIR bundle created last, if any
  uploads      \* number of files uploaded so far

colVars == <<df, technique, columns, stage, rows, shown>>

valVars ==
  <<metadata, report, enriched, before, cursor, edits, again, boxes>>

schVars == <<resource, validator>>

vocVars == <<query, answer>>

regVars == <<lookup, fetched>>

idVars == <<candidate, verdict>>

appVars == <<uploader, session, page, bundle, uploads>>

vars ==
  <<df, technique, columns, stage, rows, shown, metadata, report, enriched,
    before, cursor, edits, again, boxes, resource, validator, query, answer,
    lookup, fetched, candidate, verdict, uploader, session, page, bundle,
    uploads>>

(***************************************************************************)
(* Bounds of the model.                                                    *)
(***************************************************************************)
MaxCols == 3
MaxEdits == 2
MaxPreviewCols == 2
MaxSpelledCols == 2
MaxUploads == 3

(***************************************************************************)
(* Column inference: UIComponents._find_data_columns.                      *)
(***************************************************************************)

\* The column names tables are drawn from.
ColumnNames ==
  {"Potential (V)", "Current (A)", "Cycle", "E (V)", "I (A)",
   "Z_imag (Ohm)", "Time (s)"}

\* Other spellings of column names, each with the name it is a spelling of:
\* in upper case, in lower case, and with blanks around it.
Respelled ==
  {<<"POTENTIAL (V)", "Potential (V)">>,
   <<"potential (v)", "Potential (V)">>,
   <<"  Potential (V)  ", "Potential (V)">>,
   <<"CURRENT (A)", "Current (A)">>,
   <<"current (a)", "Current (A)">>,
   <<"  Current (A)  ", "Current (A)">>,
   <<"e (v)", "E (V)">>,
   <<"  E (V)  ", "E (V)">>,
   <<"i (a)", "I (A)">>,
   <<"  I (A)  ", "I (A)">>}

\* The name a column name is a spelling of.
BaseOf(name) ==
  IF \E pr \in Respelled : pr[1] = name
  THEN (CHOOSE pr \in Respelled : pr[1] = name)[2]
  ELSE name

SpelledNames ==
  {pr[1] : pr \in Respelled} \cup {pr[2] : pr \in Respelled}

\* The characters of every text the model inspects character by character.
Chars(name) ==
  CASE name = "Potential (V)" ->
         <<"P", "o", "t", "e", "n", "t", "i", "a", "l", " ", "(", "V", ")">>
    [] name = "Current (A)" ->
         <<"C", "u", "r", "r", "e", "n", "t", " ", "(", "A", ")">>
    [] name = "Cycle" ->
         <<"C", "y", "c", "l", "e">>
    [] name = "E (V)" ->
         <<"E", " ", "(", "V", ")">>
    [] name = "I (A)" ->
         <<"I", " ", "(", "A", ")">>
    [] name = "Z_imag (Ohm)" ->
         <<"Z", "_", "i", "m", "a", "g", " ", "(", "O", "h", "m", ")">>
    [] name = "Time (s)" ->
         <<"T", "i", "m", "e", " ", "(", "s", ")">>
    [] name = "cyclic_voltammetry" ->
         <<"c", "y", "c", "l", "i", "c", "_", "v", "o", "l", "t", "a", "m",
         "m", "e", "t", "r", "y">>
    [] name = "CyclicVoltammetry" ->
         <<"C", "y", "c", "l", "i", "c", "V", "o", "l", "t", "a", "m", "m",
         "e", "t", "r", "y">>
    [] name = "A voltammetry technique where the potential swept linearly between two limits at a constant rate." ->
         <<"A", " ", "v", "o", "l", "t", "a", "m", "m", "e", "t", "r", "y",
         " ", "t", "e", "c", "h", "n", "i", "q", "u", "e", " ", "w", "h",
         "e", "r", "e", " ", "t", "h", "e", " ", "p", "o", "t", "e", "n",
         "t", "i", "a", "l", " ", "s", "w", "e", "p", "t", " ", "l", "i",
         "n", "e", "a", "r", "l", "y", " ", "b", "e", "t", "w", "e", "e",
         "n", " ", "t", "w", "o", " ", "l", "i", "m", "i", "t", "s", " ",
         "a", "t", " ", "a", " ", "c", "o", "n", "s", "t", "a", "n", "t",
         " ", "r", "a", "t", "e", ".">>
    [] name = "CV" ->
         <<"C", "V">>
    [] name = "cyclic voltammetry" ->
         <<"c", "y", "c", "l", "i", "c", " ", "v", "o", "l", "t", "a", "m",
         "m", "e", "t", "r", "y">>
    [] name = "differential_pulse_voltammetry" ->
         <<"d", "i", "f", "f", "e", "r", "e", "n", "t", "i", "a", "l", "_",
         "p", "u", "l", "s", "e", "_", "v", "o", "l", "t", "a", "m", "m",
         "e", "t", "r", "y">>
    [] name = "DifferentialPulseVoltammetry" ->
         <<"D", "i", "f", "f", "e", "r", "e", "n", "t", "i", "a", "l", "P",
         "u", "l", "s", "e", "V", "o", "l", "t", "a", "m", "m", "e", "t",
         "r", "y">>
    [] name = "A voltammetry technique where pulses of potential are applied on top of a linear sweep." ->
         <<"A", " ", "v", "o", "l", "t", "a", "m", "m", "e", "t", "r", "y",
         " ", "t", "e", "c", "h", "n", "i", "q", "u", "e", " ", "w", "h",
         "e", "r", "e", " ", "p", "u", "l", "s", "e", "s", " ", "o", "f",
         " ", "p", "o", "t", "e", "n", "t", "i", "a", "l", " ", "a", "r",
         "e", " ", "a", "p", "p", "l", "i", "e", "d", " ", "o", "n", " ",
         "t", "o", "p", " ", "o", "f", " ", "a", " ", "l", "i", "n", "e",
         "a", "r", " ", "s", "w", "e", "e", "p", ".">>
    [] name = "DPV" ->
         <<"D", "P", "V">>
    [] name = "differential pulse voltammetry" ->
         <<"d", "i", "f", "f", "e", "r", "e", "n", "t", "i", "a", "l", " ",
         "p", "u", "l", "s", "e", " ", "v", "o", "l", "t", "a", "m", "m",
         "e", "t", "r", "y">>
    [] name = "square_wave_voltammetry" ->
         <<"s", "q", "u", "a", "r", "e", "_", "w", "a", "v", "e", "_", "v",
         "o", "l", "t", "a", "m", "m", "e", "t", "r", "y">>
    [] name = "SquareWaveVoltammetry" ->
         <<"S", "q", "u", "a", "r", "e", "W", "a", "v", "e", "V", "o", "l",
         "t", "a", "m", "m", "e", "t", "r", "y">>
    [] name = "A voltammetry technique where a square wave potential is superimposed on a staircase waveform." ->
         <<"A", " ", "v", "o", "l", "t", "a", "m", "m", "e", "t", "r", "y",
         " ", "t", "e", "c", "h", "n", "i", "q", "u", "e", " ", "w", "h",
         "e", "r", "e", " ", "a", " ", "s", "q", "u", "a", "r", "e", " ",
         "w", "a", "v", "e", " ", "p", "o", "t", "e", "n", "t", "i", "a",
         "l", " ", "i", "s", " ", "s", "u", "p", "e", "r", "i", "m", "p",
         "o", "s", "e", "d", " ", "o", "n", " ", "a", " ", "s", "t", "a",
         "i", "r", "c", "a", "s", "e", " ", "w", "a", "v", "e", "f", "o",
         "r", "m", ".">>
    [] name = "SWV" ->
         <<"S", "W", "V">>
    [] name = "square wave voltammetry" ->
         <<"s", "q", "u", "a", "r", "e", " ", "w", "a", "v", "e", " ", "v",
         "o", "l", "t", "a", "m", "m", "e", "t", "r", "y">>
    [] name = "electrochemical_impedance_spectroscopy" ->
         <<"e", "l", "e", "c", "t", "r", "o", "c", "h", "e", "m", "i", "c",
         "a", "l", "_", "i", "m", "p", "e", "d", "a", "n", "c", "e", "_",
         "s", "p", "e", "c", "t", "r", "o", "s", "c", "o", "p", "y">>
    [] name = "ElectrochemicalImpedanceSpectroscopy" ->
         <<"E", "l", "e", "c", "t", "r", "o", "c", "h", "e", "m", "i", "c",
         "a", "l", "I", "m", "p", "e", "d", "a", "n", "c", "e", "S", "p",
         "e", "c", "t", "r", "o", "s", "c", "o", "p", "y">>
    [] name = "A technique that applies a small amplitude sinusoidal voltage perturbation to measure impedance." ->
         <<"A", " ", "t", "e", "c", "h", "n", "i", "q", "u", "e", " ", "t",
         "h", "a", "t", " ", "a", "p", "p", "l", "i", "e", "s", " ", "a",
         " ", "s", "m", "a", "l", "l", " ", "a", "m", "p", "l", "i", "t",
         "u", "d", "e", " ", "s", "i", "n", "u", "s", "o", "i", "d", "a",
         "l", " ", "v", "o", "l", "t", "a", "g", "e", " ", "p", "e", "r",
         "t", "u", "r", "b", "a", "t", "i", "o", "n", " ", "t", "o", " ",
         "m", "e", "a", "s", "u", "r", "e", " ", "i", "m", "p", "e", "d",
         "a", "n", "c", "e", ".">>
    [] name = "EIS" ->
         <<"E", "I", "S">>
    [] name = "impedance spectroscopy" ->
         <<"i", "m", "p", "e", "d", "a", "n", "c", "e", " ", "s", "p", "e",
         "c", "t", "r", "o", "s", "c", "o", "p", "y">>
    [] name = "chronoamperometry" ->
         <<"c", "h", "r", "o", "n", "o", "a", "m", "p", "e", "r", "o", "m",
         "e", "t", "r", "y">>
    [] name = "Chronoamperometry" ->
         <<"C", "h", "r", "o", "n", "o", "a", "m", "p", "e", "r", "o", "m",
         "e", "t", "r", "y">>
    [] name = "A technique where potential steps are applied and current response is measured vs time." ->
         <<"A", " ", "t", "e", "c", "h", "n", "i", "q", "u", "e", " ", "w",
         "h", "e", "r", "e", " ", "p", "o", "t", "e", "n", "t", "i", "a",
         "l", " ", "s", "t", "e", "p", "s", " ", "a", "r", "e", " ", "a",
         "p", "p", "l", "i", "e", "d", " ", "a", "n", "d", " ", "c", "u",
         "r", "r", "e", "n", "t", " ", "r", "e", "s", "p", "o", "n", "s",
         "e", " ", "i", "s", " ", "m", "e", "a", "s", "u", "r", "e", "d",
         " ", "v", "s", " ", "t", "i", "m", "e", ".">>
    [] name = "CA" ->
         <<"C", "A">>
    [] name = "working_electrode" ->
         <<"w", "o", "r", "k", "i", "n", "g", "_", "e", "l", "e", "c", "t",
         "r", "o", "d", "e">>
    [] name = "WorkingElectrode" ->
         <<"W", "o", "r", "k", "i", "n", "g", "E", "l", "e", "c", "t", "r",
         "o", "d", "e">>
    [] name = "The electrode at which the electrochemical reaction of interest occurs." ->
         <<"T", "h", "e", " ", "e", "l", "e", "c", "t", "r", "o", "d", "e",
         " ", "a", "t", " ", "w", "h", "i", "c", "h", " ", "t", "h", "e",
         " ", "e", "l", "e", "c", "t", "r", "o", "c", "h", "e", "m", "i",
         "c", "a", "l", " ", "r", "e", "a", "c", "t", "i", "o", "n", " ",
         "o", "f", " ", "i", "n", "t", "e", "r", "e", "s", "t", " ", "o",
         "c", "c", "u", "r", "s", ".">>
    [] name = "WE" ->
         <<"W", "E">>
    [] name = "working electrode" ->
         <<"w", "o", "r", "k", "i", "n", "g", " ", "e", "l", "e", "c", "t",
         "r", "o", "d", "e">>
    [] name = "reference_electrode" ->
         <<"r", "e", "f", "e", "r", "e", "n", "c", "e", "_", "e", "l", "e",
         "c", "t", "r", "o", "d", "e">>
    [] name = "ReferenceElectrode" ->
         <<"R", "e", "f", "e", "r", "e", "n", "c", "e", "E", "l", "e", "c",
         "t", "r", "o", "d", "e">>
    [] name = "An electrode with a stable and well-known electrode potential." ->
         <<"A", "n", " ", "e", "l", "e", "c", "t", "r", "o", "d", "e", " ",
         "w", "i", "t", "h", " ", "a", " ", "s", "t", "a", "b", "l", "e",
         " ", "a", "n", "d", " ", "w", "e", "l", "l", "-", "k", "n", "o",
         "w", "n", " ", "e", "l", "e", "c", "t", "r", "o", "d", "e", " ",
         "p", "o", "t", "e", "n", "t", "i", "a", "l", ".">>
    [] name = "RE" ->
         <<"R", "E">>
    [] name = "reference electrode" ->
         <<"r", "e", "f", "e", "r", "e", "n", "c", "e", " ", "e", "l", "e",
         "c", "t", "r", "o", "d", "e">>
    [] name = "counter_electrode" ->
         <<"c", "o", "u", "n", "t", "e", "r", "_", "e", "l", "e", "c", "t",
         "r", "o", "d", "e">>
    [] name = "CounterElectrode" ->
         <<"C", "o", "u", "n", "t", "e", "r", "E", "l", "e", "c", "t", "r",
         "o", "d", "e">>
    [] name = "An electrode used to complete the electrical circuit in an electrochemical cell." ->
         <<"A", "n", " ", "e", "l", "e", "c", "t", "r", "o", "d", "e", " ",
         "u", "s", "e", "d", " ", "t", "o", " ", "c", "o", "m", "p", "l",
         "e", "t", "e", " ", "t", "h", "e", " ", "e", "l", "e", "c", "t",
         "r", "i", "c", "a", "l", " ", "c", "i", "r", "c", "u", "i", "t",
         " ", "i", "n", " ", "a", "n", " ", "e", "l", "e", "c", "t", "r",
         "o", "c", "h", "e", "m", "i", "c", "a", "l", " ", "c", "e", "l",
         "l", ".">>
    [] name = "CE" ->
         <<"C", "E">>
    [] name = "auxiliary electrode" ->
         <<"a", "u", "x", "i", "l", "i", "a", "r", "y", " ", "e", "l", "e",
         "c", "t", "r", "o", "d", "e">>
    [] name = "counter electrode" ->
         <<"c", "o", "u", "n", "t", "e", "r", " ", "e", "l", "e", "c", "t",
         "r", "o", "d", "e">>
    [] name = "glassy_carbon" ->
         <<"g", "l", "a", "s", "s", "y", "_", "c", "a", "r", "b", "o", "n">>
    [] name = "GlassyCarbon" ->
         <<"G", "l", "a", "s", "s", "y", "C", "a", "r", "b", "o", "n">>
    [] name = "A non-graphitising carbon with a glass-like structure." ->
         <<"A", " ", "n", "o", "n", "-", "g", "r", "a", "p", "h", "i", "t",
         "i", "s", "i", "n", "g", " ", "c", "a", "r", "b", "o", "n", " ",
         "w", "i", "t", "h", " ", "a", " ", "g", "l", "a", "s", "s", "-",
         "l", "i", "k", "e", " ", "s", "t", "r", "u", "c", "t", "u", "r",
         "e", ".">>
    [] name = "GC" ->
         <<"G", "C">>
    [] name = "vitreous carbon" ->
         <<"v", "i", "t", "r", "e", "o", "u", "s", " ", "c", "a", "r", "b",
         "o", "n">>
    [] name = "platinum" ->
         <<"p", "l", "a", "t", "i", "n", "u", "m">>
    [] name = "Platinum" ->
         <<"P", "l", "a", "t", "i", "n", "u", "m">>
    [] name = "A precious metal electrode material with high chemical stability." ->
         <<"A", " ", "p", "r", "e", "c", "i", "o", "u", "s", " ", "m", "e",
         "t", "a", "l", " ", "e", "l", "e", "c", "t", "r", "o", "d", "e",
         " ", "m", "a", "t", "e", "r", "i", "a", "l", " ", "w", "i", "t",
         "h", " ", "h", "i", "g", "h", " ", "c", "h", "e", "m", "i", "c",
         "a", "l", " ", "s", "t", "a", "b", "i", "l", "i", "t", "y", ".">>
    [] name = "Pt" ->
         <<"P", "t">>
    [] name = "potassium_nitrate" ->
         <<"p", "o", "t", "a", "s", "s", "i", "u", "m", "_", "n", "i", "t",
         "r", "a", "t", "e">>
    [] name = "PotassiumNitrate" ->
         <<"P", "o", "t", "a", "s", "s", "i", "u", "m", "N", "i", "t", "r",
         "a", "t", "e">>
    [] name = "An ionic compound with formula KNO3, commonly used as supporting electrolyte." ->
         <<"A", "n", " ", "i", "o", "n", "i", "c", " ", "c", "o", "m", "p",
         "o", "u", "n", "d", " ", "w", "i", "t", "h", " ", "f", "o", "r",
         "m", "u", "l", "a", " ", "K", "N", "O", "3", ",", " ", "c", "o",
         "m", "m", "o", "n", "l", "y", " ", "u", "s", "e", "d", " ", "a",
         "s", " ", "s", "u", "p", "p", "o", "r", "t", "i", "n", "g", " ",
         "e", "l", "e", "c", "t", "r", "o", "l", "y", "t", "e", ".">>
    [] name = "KNO3" ->
         <<"K", "N", "O", "3">>
    [] name = "potassium nitrate" ->
         <<"p", "o", "t", "a", "s", "s", "i", "u", "m", " ", "n", "i", "t",
         "r", "a", "t", "e">>
    [] name = "cv" ->
         <<"c", "v">>
    [] name = "dpv" ->
         <<"d", "p", "v">>
    [] name = "swv" ->
         <<"s", "w", "v">>
    [] name = "eis" ->
         <<"e", "i", "s">>
    [] name = "ca" ->
         <<"c", "a">>
    [] name = "voltammetry" ->
         <<"v", "o", "l", "t", "a", "m", "m", "e", "t", "r", "y">>
    [] name = "spectroscopy" ->
         <<"s", "p", "e", "c", "t", "r", "o", "s", "c", "o", "p", "y">>
    [] name = "electrode" ->
         <<"e", "l", "e", "c", "t", "r", "o", "d", "e">>
    [] name = "carbon" ->
         <<"c", "a", "r", "b", "o", "n">>
    [] name = "gold" ->
         <<"g", "o", "l", "d">>
    [] name = "silver" ->
         <<"s", "i", "l", "v", "e", "r">>
    [] name = "nitrate" ->
         <<"n", "i", "t", "r", "a", "t", "e">>
    [] name = "chloride" ->
         <<"c", "h", "l", "o", "r", "i", "d", "e">>
    [] name = "sulfate" ->
         <<"s", "u", "l", "f", "a", "t", "e">>
    [] name = "LSV" ->
         <<"L", "S", "V">>
    [] name = "Ag/AgCl" ->
         <<"A", "g", "/", "A", "g", "C", "l">>
    [] name = "0.1 M KCl" ->
         <<"0", ".", "1", " ", "M", " ", "K", "C", "l">>
    [] name = "25 C" ->
         <<"2", "5", " ", "C">>
    [] name = "POTENTIAL (V)" ->
         <<"P", "O", "T", "E", "N", "T", "I", "A", "L", " ", "(", "V", ")">>
    [] name = "potential (v)" ->
         <<"p", "o", "t", "e", "n", "t", "i", "a", "l", " ", "(", "v", ")">>
    [] name = "  Potential (V)  " ->
         <<" ", " ", "P", "o", "t", "e", "n", "t", "i", "a", "l", " ", "(", "V", ")", " ", " ">>
    [] name = "CURRENT (A)" ->
         <<"C", "U", "R", "R", "E", "N", "T", " ", "(", "A", ")">>
    [] name = "current (a)" ->
         <<"c", "u", "r", "r", "e", "n", "t", " ", "(", "a", ")">>
    [] name = "  Current (A)  " ->
         <<" ", " ", "C", "u", "r", "r", "e", "n", "t", " ", "(", "A", ")", " ", " ">>
    [] name = "e (v)" ->
         <<"e", " ", "(", "v", ")">>
    [] name = "  E (V)  " ->
         <<" ", " ", "E", " ", "(", "V", ")", " ", " ">>
    [] name = "i (a)" ->
         <<"i", " ", "(", "a", ")">>
    [] name = "  I (A)  " ->
         <<" ", " ", "I", " ", "(", "A", ")", " ", " ">>
    [] name = "Cv" ->
         <<"C", "v">>
    [] name = "Dpv" ->
         <<"D", "p", "v">>
    [] name = "sWv" ->
         <<"s", "W", "v">>
    [] name = "eIS" ->
         <<"e", "I", "S">>
    [] name = "Ca" ->
         <<"C", "a">>
    [] name = "lsv" ->
         <<"l", "s", "v">>

ToLower(c) ==
  CASE c = "A" -> "a" [] c = "B" -> "b" [] c = "C" -> "c" [] c = "D" -> "d"
    [] c = "E" -> "e" [] c = "F" -> "f" [] c = "G" -> "g" [] c = "H" -> "h"
    [] c = "I" -> "i" [] c = "J" -> "j" [] c = "K" -> "k" [] c = "L" -> "l"
    [] c = "M" -> "m" [] c = "N" -> "n" [] c = "O" -> "o" [] c = "P" -> "p"
    [] c = "Q" -> "q" [] c = "R" -> "r" [] c = "S" -> "s" [] c = "T" -> "t"
    [] c = "U" -> "u" [] c = "V" -> "v" [] c = "W" -> "w" [] c = "X" -> "x"
    [] c = "Y" -> "y" [] c = "Z" -> "z"
    [] OTHER -> c

ToUpper(c) ==
  CASE c = "a" -> "A" [] c = "b" -> "B" [] c = "c" -> "C" [] c = "d" -> "D"
    [] c = "e" -> "E" [] c = "f" -> "F" [] c = "g" -> "G" [] c = "h" -> "H"
    [] c = "i" -> "I" [] c = "j" -> "J" [] c = "k" -> "K" [] c = "l" -> "L"
    [] c = "m" -> "M" [] c = "n" -> "N" [] c = "o" -> "O" [] c = "p" -> "P"
    [] c = "q" -> "Q" [] c = "r" -> "R" [] c = "s" -> "S" [] c = "t" -> "T"
    [] c = "u" -> "U" [] c = "v" -> "V" [] c = "w" -> "W" [] c = "x" -> "X"
    [] c = "y" -> "Y" [] c = "z" -> "Z"
    [] OTHER -> c

WordChars ==
  {"a", "b", "c", "d", "e", "f", "g", "h", "i", "j", "k", "l", "m",
   "n", "o", "p", "q", "r", "s", "t", "u", "v", "w", "x", "y", "z",
   "A", "B", "C", "D", "E", "F", "G", "H", "I", "J", "K", "L", "M",
   "N", "O", "P", "Q", "R", "S", "T", "U", "V", "W", "X", "Y", "Z",
   "0", "1", "2", "3", "4", "5", "6", "7", "8", "9", "_"}
\* LowerSeq leaving the letters as they are.
LowerSeqKeepsCase(s) == s

\* str.lower() of a character sequence.
LowerSeq(s) == [i \in 1..Len(s) |-> ToLower(s[i])]

\* One literal of a pattern; wb says that \b follows it.
Tok(lit, wb) == [lit |-> lit, wb |-> wb]

\* \b at position i of s (between s[i-1] and s[i]), after a word character.
WordBoundaryAfter(s, i) ==
  /\ i > 1
  /\ s[i - 1] \in WordChars
  /\ (i > Len(s) \/ s[i] \notin WordChars)

\* Does the rest of a pattern .*lit1.*lit2... match somewhere in s from
\* position `from` on?  (.* is any, possibly empty, run of characters.)
RECURSIVE MatchFrom(_, _, _)
MatchFrom(toks, s, from) ==
  IF toks = <<>> THEN TRUE
  ELSE LET lit == Head(toks).lit
           n == Len(lit)
       IN \E i \in from..(Len(s) - n + 1) :
            /\ SubSeq(s, i, i + n - 1) = lit
            /\ (Head(toks).wb => WordBoundaryAfter(s, i + n))
            /\ MatchFrom(Tail(toks), s, i + n)

\* re.search(pattern, text)
ReSearch(pattern, s) == MatchFrom(pattern, s, 1)

\* The iteration order of the patterns dict.
RoleOrder ==
  <<"potential", "current", "time", "frequency", "z_real", "z_imag", "phase">>

Roles == {RoleOrder[i] : i \in 1..Len(RoleOrder)}

PatternList(role) ==
  CASE role = "potential" ->
      <<
        << Tok(<<"p", "o", "t", "e", "n", "t", "i", "a", "l">>, FALSE), Tok(<<"v">>, FALSE) >>,   \* .*potential.*v.*
        << Tok(<<"v">>, FALSE), Tok(<<"p", "o", "t", "e", "n", "t", "i", "a", "l">>, FALSE) >>,   \* .*v.*potential.*
        << Tok(<<"v", "o", "l", "t", "a", "g", "e">>, FALSE) >>,   \* .*voltage.*
        << Tok(<<"p", "o", "t">>, FALSE) >>,   \* .*pot.*
        << Tok(<<"v">>, TRUE) >>,   \* .*v\b
        << Tok(<<"e">>, TRUE), Tok(<<"v">>, FALSE) >>,   \* .*e\b.*v.*
        << Tok(<<"w", "o", "r", "k", "i", "n", "g">>, FALSE), Tok(<<"p", "o", "t", "e", "n", "t", "i", "a", "l">>, FALSE) >>   \* .*working.*potential.*
      >>
    [] role = "current" ->
      <<
        << Tok(<<"c", "u", "r", "r", "e", "n", "t">>, FALSE), Tok(<<"a">>, FALSE) >>,   \* .*current.*a.*
        << Tok(<<"a">>, FALSE), Tok(<<"c", "u", "r", "r", "e", "n", "t">>, FALSE) >>,   \* .*a.*current.*
        << Tok(<<"a", "m", "p", "e", "r", "e">>, FALSE) >>,   \* .*ampere.*
        << Tok(<<"i">>, TRUE) >>,   \* .*i\b
        << Tok(<<"c", "u", "r", "r", "e", "n", "t">>, FALSE) >>,   \* .*current.*
        << Tok(<<"a", "m", "p">>, FALSE) >>   \* .*amp.*
      >>
    [] role = "time" ->
      <<
        << Tok(<<"t", "i", "m", "e">>, FALSE), Tok(<<"s">>, FALSE) >>,   \* .*time.*s.*
        << Tok(<<"s">>, FALSE), Tok(<<"t", "i", "m", "e">>, FALSE) >>,   \* .*s.*time.*
        << Tok(<<"s", "e", "c", "o", "n", "d">>, FALSE) >>,   \* .*second.*
        << Tok(<<"t">>, TRUE) >>,   \* .*t\b
        << Tok(<<"t", "i", "m", "e">>, FALSE) >>,   \* .*time.*
        << Tok(<<"s", "e", "c">>, FALSE) >>   \* .*sec.*
      >>
    [] role = "frequency" ->
      <<
        << Tok(<<"f", "r", "e", "q">>, FALSE), Tok(<<"h", "z">>, FALSE) >>,   \* .*freq.*hz.*
        << Tok(<<"h", "z">>, FALSE), Tok(<<"f", "r", "e", "q">>, FALSE) >>,   \* .*hz.*freq.*
        << Tok(<<"f", "r", "e", "q", "u", "e", "n", "c", "y">>, FALSE) >>,   \* .*frequency.*
        << Tok(<<"f">>, TRUE), Tok(<<"h", "z">>, FALSE) >>,   \* .*f\b.*hz.*
        << Tok(<<"h", "e", "r", "t", "z">>, FALSE) >>   \* .*hertz.*
      >>
    [] role = "z_real" ->
      <<
        << Tok(<<"z">>, FALSE), Tok(<<"r", "e", "a", "l">>, FALSE) >>,   \* .*z.*real.*
        << Tok(<<"r", "e", "a", "l">>, FALSE), Tok(<<"z">>, FALSE) >>,   \* .*real.*z.*
        << Tok(<<"z">>, FALSE), Tok(<<"r">>, FALSE) >>,   \* .*z.*r.*
        << Tok(<<"z", "r">>, FALSE) >>,   \* .*zr.*
        << Tok(<<"z">>, FALSE), Tok(<<"o", "h", "m">>, FALSE) >>,   \* .*z.*ohm.*
        << Tok(<<"i", "m", "p", "e", "d", "a", "n", "c", "e">>, FALSE), Tok(<<"r", "e", "a", "l">>, FALSE) >>   \* .*impedance.*real.*
      >>
    [] role = "z_imag" ->
      <<
        << Tok(<<"z">>, FALSE), Tok(<<"i", "m", "a", "g">>, FALSE) >>,   \* .*z.*imag.*
        << Tok(<<"i", "m", "a", "g">>, FALSE), Tok(<<"z">>, FALSE) >>,   \* .*imag.*z.*
        << Tok(<<"z">>, FALSE), Tok(<<"i">>, FALSE) >>,   \* .*z.*i.*
        << Tok(<<"z", "i">>, FALSE) >>,   \* .*zi.*
        << Tok(<<"z">>, FALSE), Tok(<<"i", "m", "a", "g", "i", "n", "a", "r", "y">>, FALSE) >>,   \* .*z.*imaginary.*
        << Tok(<<"i", "m", "p", "e", "d", "a", "n", "c", "e">>, FALSE), Tok(<<"i", "m", "a", "g">>, FALSE) >>   \* .*impedance.*imag.*
      >>
    [] role = "phase" ->
      <<
        << Tok(<<"p", "h", "a", "s", "e">>, FALSE) >>,   \* .*phase.*
        << Tok(<<"d", "e", "g">>, FALSE) >>,   \* .*deg.*
        << Tok(<<"a", "n", "g", "l", "e">>, FALSE) >>,   \* .*angle.*
        << Tok(<<"p", "h", "i">>, FALSE) >>   \* .*phi.*
      >>

\* The kinds of cell content a column of an uploaded table holds.
CellKinds == {"num", "text"}

\* pd.to_numeric(series, errors=...): with errors="coerce" a cell that does
\* not parse becomes NaN and nothing is raised; with errors="raise" a text
\* cell raises.
ToNumericRaises(cells, errors) == errors = "raise" /\ cells = "text"

\* The errors argument _find_data_columns passes to pd.to_numeric.
CoerceMode == "coerce"

\* re.search(pattern, col_name.lower()) for every column name, role and
\* pattern of the role, evaluated once.
Searched ==
  [nm \in ColumnNames \cup SpelledNames |->
    [role \in Roles |->
      [k \in 1..Len(PatternList(role)) |->
         ReSearch(PatternList(role)[k], LowerSeq(Chars(nm)))]]]

\* The pattern loop for one column: the first pattern that matches the
\* lowercased name and whose numeric check does not raise assigns the column.
RECURSIVE PatternAssigns(_, _, _)
PatternAssigns(col, role, k) ==
  IF k > Len(PatternList(role)) THEN FALSE
  ELSE IF /\ Searched[col.name][role][k]
          /\ ~ToNumericRaises(col.cells, CoerceMode)
       THEN TRUE
       ELSE PatternAssigns(col, role, k + 1)

\* The column loop for one role: index of the first column, in table order,
\* that the pattern loop assigns; 0 when the role stays unassigned.
RECURSIVE ColumnFor(_, _, _)
ColumnFor(table, role, i) ==
  IF i > Len(table) THEN 0
  ELSE IF PatternAssigns(table[i], role, 1) THEN i
       ELSE ColumnFor(table, role, i + 1)

\* The role loop: the columns dict after roles k.. have been searched.
RECURSIVE SearchRoles(_, _, _)
SearchRoles(table, k, acc) ==
  IF k > Len(RoleOrder) THEN acc
  ELSE LET role == RoleOrder[k]
           i == ColumnFor(table, role, 1)
       IN SearchRoles(table, k + 1,
            IF i = 0 THEN acc
            ELSE [r \in DOMAIN acc \cup {role} |->
                    IF r = role THEN table[i].name ELSE acc[r]])

NoColumns == [r \in {} |-> ""]

\* _find_data_columns searching, for EIS, the impedance roles only.
FindDataColumnsOfTechnique(table, tech) ==
  IF tech = "EIS" THEN SearchRoles(table, 4, NoColumns)
  ELSE SearchRoles(table, 1, NoColumns)

\* _find_data_columns(df, technique): the technique argument is not read.
FindDataColumnsOf(table, tech) == SearchRoles(table, 1, NoColumns)

(***************************************************************************)
(* The data preview as a state machine: it starts from an uploaded table   *)
(* and a selected technique, then the columns are inferred.                *)
(***************************************************************************)
Techniques == {"CV", "EIS", "CA", "DPV", "SWV"}

Column(name, cells) == [name |-> name, cells |-> cells]

\* Tables of up to MaxCols columns with distinct names.
RECURSIVE TablesOfLen(_)
TablesOfLen(n) ==
  IF n = 0 THEN {<<>>}
  ELSE {Append(t, Column(nm, ck)) :
          t \in TablesOfLen(n - 1), nm \in ColumnNames, ck \in CellKinds}

DistinctNames(t) ==
  \A i, j \in 1..Len(t) : t[i].name = t[j].name => i = j

Tables ==
  {t \in UNION {TablesOfLen(n) : n \in 1..MaxCols} : DistinctNames(t)}

\* The row counts of uploaded tables: none, or some.
RowCounts == {0, 10}

\* Nothing shown yet.
NoFigure == [title |-> "", x |-> "", y |-> ""]

NoPreview == [chart |-> NoFigure, message |-> "", warned |-> FALSE]

ColInit ==
  /\ df \in Tables
  /\ technique \in Techniques
  /\ columns = NoColumns
  /\ stage = "uploaded"
  /\ rows \in RowCounts \ {0}
  /\ shown = NoPreview

\* render_data_preview -> _create_technique_plot -> _find_data_columns
FindDataColumns ==
  /\ stage = "uploaded"
  /\ columns' = FindDataColumnsOf(df, technique)
  /\ stage' = "found"
  /\ UNCHANGED <<df, technique, rows, shown>>
  /\ UNCHANGED <<valVars, schVars, vocVars, regVars, idVars, appVars>>

ColNext == FindDataColumns

\* Tables of up to MaxSpelledCols columns whose names are spellings of
\* different names.
RECURSIVE SpelledTablesOfLen(_)
SpelledTablesOfLen(n) ==
  IF n = 0 THEN {<<>>}
  ELSE {Append(t, Column(nm, ck)) :
          t \in SpelledTablesOfLen(n - 1), nm \in SpelledNames,
          ck \in CellKinds}

DistinctBases(t) ==
  \A i, j \in 1..Len(t) : BaseOf(t[i].name) = BaseOf(t[j].name) => i = j

SpelledTables ==
  {t \in UNION {SpelledTablesOfLen(n) : n \in 1..MaxSpelledCols} :
     DistinctBases(t)}

\* The techniques test_column_detection asks for.
DetectionTechniques == {"CV", "EIS", "CA"}

SpelledInit ==
  /\ df \in SpelledTables
  /\ technique \in DetectionTechniques
  /\ columns = NoColumns
  /\ stage = "uploaded"
  /\ rows \in RowCounts \ {0}
  /\ shown = NoPreview

(***************************************************************************)
(* The plot of the data preview: render_data_preview.                      *)
(***************************************************************************)

\* df.select_dtypes(include=[np.number]).columns.tolist()
NumericCols(table) == SelectSeq(table, LAMBDA col : col.cells = "num")

\* df.empty: no rows or no columns.
DfEmpty(table, n) == n = 0 \/ Len(table) = 0

Figure(title, x, y) == [title |-> title, x |-> x, y |-> y]

\* _create_fallback_plot(df): the first two numeric columns, or the only
\* one against the index, or None.
CreateFallbackPlot(table) ==
  LET numeric_cols == NumericCols(table)
  IN IF Len(numeric_cols) >= 2
     THEN Figure("Data Preview", numeric_cols[1].name, numeric_cols[2].name)
     ELSE IF Len(numeric_cols) = 1
     THEN Figure("Data Preview", "index", numeric_cols[1].name)
     ELSE NoFigure

\* columns.get(a) and columns.get(b)
HasBoth(cols, a, b) == a \in DOMAIN cols /\ b \in DOMAIN cols

\* _create_technique_plot(df, technique).  has_update_yaxis tells whether
\* the figure class has the method update_yaxis the Nyquist branch calls;
\* without it the call raises AttributeError, which the handler turns into
\* a warning and None.
CreateTechniquePlot(table, n, tech, has_update_yaxis) ==
  LET cols == FindDataColumnsOf(table, tech)
      out(fig, warned, found) ==
        [fig |-> fig, warned |-> warned, columns |-> found]
  IN IF DfEmpty(table, n) THEN out(NoFigure, FALSE, NoColumns)
     ELSE IF tech = "CV" /\ HasBoth(cols, "potential", "current")
     THEN out(Figure("Cyclic Voltammogram", cols["potential"], cols["current"]),
              FALSE, cols)
     ELSE IF tech = "EIS" /\ HasBoth(cols, "z_real", "z_imag")
     THEN IF has_update_yaxis
          THEN out(Figure("Nyquist Plot", cols["z_real"], cols["z_imag"]),
                   FALSE, cols)
          ELSE out(NoFigure, TRUE, cols)
     ELSE IF tech = "CA" /\ HasBoth(cols, "time", "current")
     THEN out(Figure("Chronoamperogram", cols["time"], cols["current"]),
              FALSE, cols)
     ELSE IF tech \in {"DPV", "SWV"} /\ HasBoth(cols, "potential", "current")
     THEN out(Figure("Measurement", cols["potential"], cols["current"]),
              FALSE, cols)
     ELSE out(CreateFallbackPlot(table), FALSE, cols)

GenericInfo == "Using generic plot - column names don't match expected patterns"
UnableInfo ==
  "Unable to generate plot - please check that your data contains numeric columns"

\* The plot part of render_data_preview(df, technique).
RenderPlot(table, n, tech, has_update_yaxis) ==
  LET made == CreateTechniquePlot(table, n, tech, has_update_yaxis)
      fallback_fig == CreateFallbackPlot(table)
  IN [columns |-> made.columns,
      shown |->
        IF made.fig # NoFigure
        THEN [chart |-> made.fig, message |-> "", warned |-> made.warned]
        ELSE IF fallback_fig # NoFigure
        THEN [chart |-> fallback_fig, message |-> GenericInfo,
              warned |-> made.warned]
        ELSE [chart |-> NoFigure, message |-> UnableInfo,
              warned |-> made.warned]]

\* Tables of up to MaxPreviewCols columns with distinct names.
PreviewTables ==
  {t \in UNION {TablesOfLen(n) : n \in 1..MaxPreviewCols} : DistinctNames(t)}

\* The techniques the preview is asked for: those of the selector and one
\* that no branch of _create_technique_plot names.
PreviewTechniques == Techniques \cup {"LSV"}

PreviewInit ==
  /\ df \in PreviewTables
  /\ technique \in PreviewTechniques
  /\ columns = NoColumns
  /\ stage = "uploaded"
  /\ rows \in RowCounts
  /\ shown = NoPreview

\* UIComponents.render_data_preview(df, technique)
RenderDataPreview ==
  /\ stage = "uploaded"
  /\ \E has_update_yaxis \in BOOLEAN :
       LET out == RenderPlot(df, rows, technique, has_update_yaxis)
       IN /\ columns' = out.columns
          /\ shown' = out.shown
  /\ stage' = "previewed"
  /\ UNCHANGED <<df, technique, rows>>
  /\ UNCHANGED <<valVars, schVars, vocVars, regVars, idVars, appVars>>

PreviewNext == RenderDataPreview

(***************************************************************************)
(* The vocabulary store and the term matcher:                              *)
(* EMMOElectrochemistryIntegration (core/emmo_integration.py).             *)
(***************************************************************************)
\* _load_local_terms: the store, in insertion order.  An iri is written
\* without its common prefix https://w3id.org/emmo/domain/electrochemistry.
LocalTerms ==
  <<
    [key |-> "cyclic_voltammetry",
     iri |-> "#electrochemistry_25aae0e9_a17c_4eb6_ac69_dd4264fad3d5",
     label |-> "CyclicVoltammetry",
     definition |->
       "A voltammetry technique where the potential swept linearly between two limits at a constant rate.",
     synonyms |-> <<"CV", "cyclic voltammetry">>],
    [key |-> "differential_pulse_voltammetry",
     iri |-> "#electrochemistry_f49b84d4_e1f9_424c_bb22_8cea23c0a7d4",
     label |-> "DifferentialPulseVoltammetry",
     definition |->
       "A voltammetry technique where pulses of potential are applied on top of a linear sweep.",
     synonyms |-> <<"DPV", "differential pulse voltammetry">>],
    [key |-> "square_wave_voltammetry",
     iri |-> "#electrochemistry_979e24bc_a0d6_4a94_ad99_46739c887dc1",
     label |-> "SquareWaveVoltammetry",
     definition |->
       "A voltammetry technique where a square wave potential is superimposed on a staircase waveform.",
     synonyms |-> <<"SWV", "square wave voltammetry">>],
    [key |-> "electrochemical_impedance_spectroscopy",
     iri |-> "#electrochemistry_c7c8cda4_b8a4_4b1a_b0eb_58cbb1516945",
     label |-> "ElectrochemicalImpedanceSpectroscopy",
     definition |->
       "A technique that applies a small amplitude sinusoidal voltage perturbation to measure impedance.",
     synonyms |-> <<"EIS", "impedance spectroscopy">>],
    [key |-> "chronoamperometry",
     iri |-> "#electrochemistry_f57e2b9c_bc4c_4245_b154_7ee83e688464",
     label |-> "Chronoamperometry",
     definition |->
       "A technique where potential steps are applied and current response is measured vs time.",
     synonyms |-> <<"CA", "chronoamperometry">>],
    [key |-> "working_electrode",
     iri |-> "#electrochemistry_fb0d9eef_92af_4628_8814_e065ca255d59",
     label |-> "WorkingElectrode",
     definition |->
       "The electrode at which the electrochemical reaction of interest occurs.",
     synonyms |-> <<"WE", "working electrode">>],
    [key |-> "reference_electrode",
     iri |-> "#electrochemistry_8e3bd7c7_681b_4f50_8ac5_f3dad6312ff4",
     label |-> "ReferenceElectrode",
     definition |->
       "An electrode with a stable and well-known electrode potential.",
     synonyms |-> <<"RE", "reference electrode">>],
    [key |-> "counter_electrode",
     iri |-> "#electrochemistry_4bd89acc_d5ee_4dae_8bb0_bf9e5de43fbd",
     label |-> "CounterElectrode",
     definition |->
       "An electrode used to complete the electrical circuit in an electrochemical cell.",
     synonyms |-> <<"CE", "auxiliary electrode", "counter electrode">>],
    [key |-> "glassy_carbon",
     iri |-> "#electrochemistry_3f70e5de_fa27_46a4_b201_92d0e6b5ab7a",
     label |-> "GlassyCarbon",
     definition |->
       "A non-graphitising carbon with a glass-like structure.",
     synonyms |-> <<"GC", "vitreous carbon">>],
    [key |-> "platinum",
     iri |-> "#electrochemistry_1b827d8b_47e4_4f5a_a49e_4ad3fb28d559",
     label |-> "Platinum",
     definition |->
       "A precious metal electrode material with high chemical stability.",
     synonyms |-> <<"Pt", "platinum">>],
    [key |-> "potassium_nitrate",
     iri |-> "#electrochemistry_5e8b6d8c_3d60_4186_8b47_0c80b154b0a9",
     label |-> "PotassiumNitrate",
     definition |->
       "An ionic compound with formula KNO3, commonly used as supporting electrolyte.",
     synonyms |-> <<"KNO3", "potassium nitrate">>]
  >>

\* The one-element list of x if cond holds, the empty list if not.
Opt(cond, x) == IF cond THEN <<x>> ELSE <<>>

\* str.upper() of a character sequence, and str.replace(" ", "_").
UpperSeq(s) == [i \in 1..Len(s) |-> ToUpper(s[i])]

ReplaceSpaces(s) == [i \in 1..Len(s) |-> IF s[i] = " " THEN "_" ELSE s[i]]

\* needle in hay, for character sequences.
Contains(hay, needle) ==
  \E i \in 1..(Len(hay) - Len(needle) + 1) :
    SubSeq(hay, i, i + Len(needle) - 1) = needle

\* The index in LocalTerms of the term stored under a key (keys are unique).
TermOfKey(key) == CHOOSE i \in 1..Len(LocalTerms) : LocalTerms[i].key = key

\* The first index from i on that satisfies Test; 0 when there is none.
RECURSIVE FirstTerm(_, _)
FirstTerm(Test(_), i) ==
  IF i > Len(LocalTerms) THEN 0
  ELSE IF Test(i) THEN i
  ELSE FirstTerm(Test, i + 1)

\* The abbreviation table of validate_technique.
technique_mappings ==
  <<<<"cv", "cyclic_voltammetry">>,
    <<"dpv", "differential_pulse_voltammetry">>,
    <<"swv", "square_wave_voltammetry">>,
    <<"eis", "electrochemical_impedance_spectroscopy">>,
    <<"ca", "chronoamperometry">>>>

\* validate_technique comparing the text as it is spelled.
ValidateTechniqueOfExact(t) ==
  LET technique_lower == ReplaceSpaces(LowerSeq(t))
      direct(i) == Chars(LocalTerms[i].key) = technique_lower
      synonym(i) ==
        \E k \in 1..Len(LocalTerms[i].synonyms) :
          Chars(LocalTerms[i].synonyms[k]) = t
      mapped == {k \in 1..Len(technique_mappings) :
                   Chars(technique_mappings[k][1]) = t}
  IN IF FirstTerm(direct, 1) # 0 THEN FirstTerm(direct, 1)
     ELSE IF FirstTerm(synonym, 1) # 0 THEN FirstTerm(synonym, 1)
     ELSE IF mapped # {}
     THEN TermOfKey(technique_mappings[CHOOSE k \in mapped : TRUE][2])
     ELSE 0

\* validate_technique(technique): the index of the matched term, 0 for None.
ValidateTechniqueOf(t) ==
  LET technique_lower == ReplaceSpaces(LowerSeq(t))
      direct(i) == Chars(LocalTerms[i].key) = technique_lower
      synonym(i) ==
        \E k \in 1..Len(LocalTerms[i].synonyms) :
          UpperSeq(Chars(LocalTerms[i].synonyms[k])) = UpperSeq(t)
      mapped == {k \in 1..Len(technique_mappings) :
                   Chars(technique_mappings[k][1]) = LowerSeq(t)}
  IN IF FirstTerm(direct, 1) # 0 THEN FirstTerm(direct, 1)
     ELSE IF FirstTerm(synonym, 1) # 0 THEN FirstTerm(synonym, 1)
     ELSE IF mapped # {}
     THEN TermOfKey(technique_mappings[CHOOSE k \in mapped : TRUE][2])
     ELSE 0

\* The keywords of get_controlled_vocabulary; no entry for other categories.
category_filters(category) ==
  CASE category = "techniques" ->
         <<"voltammetry", "spectroscopy", "chronoamperometry">>
    [] category = "electrodes" -> <<"electrode">>
    [] category = "materials" -> <<"carbon", "platinum", "gold", "silver">>
    [] category = "electrolytes" -> <<"nitrate", "chloride", "sulfate">>
    [] OTHER -> <<>>

\* get_controlled_vocabulary(category): the indices of the terms kept.
ControlledVocabulary(category) ==
  LET keywords == category_filters(category)
  IN {i \in 1..Len(LocalTerms) :
        \E k \in 1..Len(keywords) :
          \/ Contains(LowerSeq(Chars(LocalTerms[i].label)), Chars(keywords[k]))
          \/ Contains(LowerSeq(Chars(LocalTerms[i].definition)),
                      Chars(keywords[k]))}

\* The maximum number of suggestions returned.
MaxSuggestions == 5

\* The loop of suggest_terms over the terms searched, in store order.
RECURSIVE SuggestLoop(_, _, _)
SuggestLoop(user_lower, search_terms, i) ==
  IF i > Len(LocalTerms) THEN <<>>
  ELSE LET term == LocalTerms[i]
           hit == /\ i \in search_terms
                  /\ \/ Contains(LowerSeq(Chars(term.label)), user_lower)
                     \/ \E k \in 1..Len(term.synonyms) :
                          Contains(LowerSeq(Chars(term.synonyms[k])), user_lower)
                     \/ Contains(LowerSeq(Chars(term.definition)), user_lower)
       IN Opt(hit, i) \o SuggestLoop(user_lower, search_terms, i + 1)

\* SuggestTermsOf returning every suggestion found.
SuggestTermsOfUncapped(user_input, category) ==
  LET search_terms == IF category = "" THEN 1..Len(LocalTerms)
                      ELSE ControlledVocabulary(category)
  IN SuggestLoop(LowerSeq(user_input), search_terms, 1)

\* suggest_terms(user_input, category): at most five term indices;
\* category "" stands for None.
SuggestTermsOf(user_input, category) ==
  LET search_terms == IF category = "" THEN 1..Len(LocalTerms)
                      ELSE ControlledVocabulary(category)
      suggestions == SuggestLoop(LowerSeq(user_input), search_terms, 1)
  IN SubSeq(suggestions, 1,
            IF Len(suggestions) < MaxSuggestions THEN Len(suggestions)
            ELSE MaxSuggestions)

(***************************************************************************)
(* Metadata records.                                                       *)
(*                                                                         *)
(* A record is a nested mapping.  It is modelled flat: `sec` gives, for    *)
(* every section (a key whose value is expected to be a mapping), whether  *)
(* the key is absent, holds a mapping, or holds a plain string; `leaf`     *)
(* gives the value of every other key.  Keys below a section that is not   *)
(* a mapping are absent.  Numbers are integers in thousandths (0.1 is      *)
(* 100), which is exact for every threshold of the validator.              *)
(***************************************************************************)
AbsentV == [k |-> "absent", s |-> "", n |-> 0, l |-> <<>>]
Str(x) == [k |-> "str", s |-> x, n |-> 0, l |-> <<>>]
Num(i) == [k |-> "num", s |-> "", n |-> i, l |-> <<>>]
List(q) == [k |-> "list", s |-> "", n |-> 0, l |-> q]

\* Python truthiness of a value (None, "", 0 and [] are falsy).
Truthy(v) ==
  CASE v.k = "absent" -> FALSE
    [] v.k = "str" -> v.s # ""
    [] v.k = "num" -> v.n # 0
    [] v.k = "list" -> v.l # <<>>

\* Every path of a record, parents before children.
PathOrder ==
  <<"experiment_id", "schema_version",
    "technique", "technique.name", "technique.description",
    "technique.emmo_iri", "technique.emmo_label", "technique.emmo_definition",
    "technique.parameters",
    "technique.parameters.scan_rate",
    "technique.parameters.start_potential",
    "technique.parameters.end_potential",
    "technique.parameters.frequency_range",
    "technique.parameters.ac_amplitude",
    "technique.parameters.pulse_width",
    "technique.parameters.frequency",
    "technique.parameters.step_times",
    "experimental_setup",
    "experimental_setup.working_electrode",
    "experimental_setup.reference_electrode",
    "experimental_setup.electrolyte",
    "experimental_setup.temperature",
    "dataset", "dataset.filename", "dataset.format",
    "attribution", "attribution.creator", "attribution.institution",
    "fair_compliance",
    "fair_compliance.accessible",
    "fair_compliance.accessible.access_protocol",
    "fair_compliance.interoperable",
    "fair_compliance.interoperable.metadata_vocabulary",
    "fair_compliance.reusable",
    "fair_compliance.reusable.license",
    "related_work", "related_work.publication_doi",
    "emmo_compliance", "emmo_compliance.ontology_version",
    "emmo_compliance.terms_used",
    "emmo_compliance.vocabulary_mapping",
    "emmo_compliance.vocabulary_mapping.working_electrode",
    "emmo_compliance.vocabulary_mapping.reference_electrode",
    "emmo_compliance.vocabulary_mapping.electrolyte",
    "emmo_compliance.vocabulary_mapping.temperature">>

Sections ==
  {"technique", "technique.parameters", "experimental_setup", "dataset",
   "attribution", "fair_compliance", "fair_compliance.accessible",
   "fair_compliance.interoperable", "fair_compliance.reusable",
   "related_work", "emmo_compliance", "emmo_compliance.vocabulary_mapping"}

Paths == {PathOrder[i] : i \in 1..Len(PathOrder)}

LeafPaths == Paths \ Sections

\* The section each path lives in; "" for a top-level key.
ParentTable ==
  [p \in Paths |->
  CASE p \in {"experiment_id", "schema_version", "technique",
              "experimental_setup", "dataset", "attribution",
              "fair_compliance", "related_work", "emmo_compliance"} -> ""
    [] p \in {"technique.name", "technique.description", "technique.emmo_iri",
              "technique.emmo_label", "technique.emmo_definition",
              "technique.parameters"} -> "technique"
    [] p \in {"technique.parameters.scan_rate",
              "technique.parameters.start_potential",
              "technique.parameters.end_potential",
              "technique.parameters.frequency_range",
              "technique.parameters.ac_amplitude",
              "technique.parameters.pulse_width",
              "technique.parameters.frequency",
              "technique.parameters.step_times"} -> "technique.parameters"
    [] p \in {"experimental_setup.working_electrode",
              "experimental_setup.reference_electrode",
              "experimental_setup.electrolyte",
              "experimental_setup.temperature"} -> "experimental_setup"
    [] p \in {"dataset.filename", "dataset.format"} -> "dataset"
    [] p \in {"attribution.creator", "attribution.institution"} -> "attribution"
    [] p \in {"fair_compliance.accessible", "fair_compliance.interoperable",
              "fair_compliance.reusable"} -> "fair_compliance"
    [] p = "fair_compliance.accessible.access_protocol" ->
         "fair_compliance.accessible"
    [] p = "fair_compliance.interoperable.metadata_vocabulary" ->
         "fair_compliance.interoperable"
    [] p = "fair_compliance.reusable.license" -> "fair_compliance.reusable"
    [] p = "related_work.publication_doi" -> "related_work"
    [] p \in {"emmo_compliance.ontology_version",
              "emmo_compliance.terms_used",
              "emmo_compliance.vocabulary_mapping"} -> "emmo_compliance"
    [] p \in {"emmo_compliance.vocabulary_mapping.working_electrode",
              "emmo_compliance.vocabulary_mapping.reference_electrode",
              "emmo_compliance.vocabulary_mapping.electrolyte",
              "emmo_compliance.vocabulary_mapping.temperature"} ->
         "emmo_compliance.vocabulary_mapping"]

ParentOf(p) == ParentTable[p]

\* The sections a path is below, at any depth.
RECURSIVE Ancestors(_)
Ancestors(p) ==
  IF ParentOf(p) = "" THEN {}
  ELSE {ParentOf(p)} \cup Ancestors(ParentOf(p))

AncestorTable == [p \in Paths |-> Ancestors(p)]

\* Is p below section s (at any depth)?
Below(p, s) == s \in AncestorTable[p]

\* The empty mapping {}.
EmptyRecord ==
  [sec |-> [s \in Sections |-> "absent"], leaf |-> [p \in LeafPaths |-> AbsentV]]

\* d[key] = value, creating the mappings on the way.
RECURSIVE WithSection(_, _)
WithSection(md, s) ==
  IF s = "" THEN md
  ELSE LET up == WithSection(md, ParentOf(s))
       IN [up EXCEPT !.sec[s] = "map"]

WithLeaf(md, p, v) ==
  LET up == WithSection(md, ParentOf(p))
  IN [up EXCEPT !.leaf[p] = v]

RECURSIVE WithLeaves(_, _)
WithLeaves(md, pvs) ==
  IF pvs = <<>> THEN md
  ELSE WithLeaves(WithLeaf(md, Head(pvs)[1], Head(pvs)[2]), Tail(pvs))

\* The key s rebound to a non-mapping (kind "str") or removed ("absent"):
\* everything below it is gone.  Rebound to "map": the empty mapping.
WithSectionKind(md, s, kind) ==
  [sec |-> [t \in Sections |->
              IF t = s THEN kind
              ELSE IF Below(t, s) THEN "absent" ELSE md.sec[t]],
   leaf |-> [p \in LeafPaths |->
              IF Below(p, s) THEN AbsentV ELSE md.leaf[p]]]

\* dict.get(key) on the mapping that holds p: None when the key, or the
\* mapping itself (defaulted to {}), is missing.
Get(md, p) == md.leaf[p]

\* Is the mapping at section s empty ({} or missing)?
EmptyMap(md, s) ==
  /\ \A p \in LeafPaths : ParentOf(p) = s => md.leaf[p].k = "absent"
  /\ \A t \in Sections : ParentOf(t) = s => md.sec[t] = "absent"

\* In these sections .get() is called on the value: a plain string there
\* has no .get and the call raises AttributeError.
NotNavigable(md, secs) == \E s \in secs : md.sec[s] = "str"

(***************************************************************************)
(* The validator: ECDataValidator (core/validator.py).                     *)
(*                                                                         *)
(* A message is its format text and the value formatted into it; the       *)
(* emoji that prefix the texts in the source are left out.                 *)
(***************************************************************************)
Msg(fmt, arg) == [fmt |-> fmt, arg |-> arg]

NoMsg == Msg("", "")

\* repr() of a value inside a message.
Repr(v) ==
  CASE v.k = "str" -> v.s
    [] v.k = "num" -> "<number>"
    [] v.k = "list" -> "<list>"
    [] OTHER -> "None"

Present(md, p) ==
  IF p \in Sections THEN md.sec[p] # "absent" ELSE md.leaf[p].k # "absent"

\* What the constructor can find at schema_path.
SchemaResources == {"valid", "missing", "unreadable", "unparsable"}

\* The body of the try block of _load_schema: the schema it returns, or the
\* exception it raises (open raises OSError, json.load JSONDecodeError).
LoadAttempt(res) ==
  CASE res = "missing" -> [raised |-> "", schema |-> "minimal"]
    [] res = "unreadable" -> [raised |-> "OSError", schema |-> ""]
    [] res = "unparsable" -> [raised |-> "JSONDecodeError", schema |-> ""]
    [] res = "valid" -> [raised |-> "", schema |-> "file"]

\* CaughtByLoad for a handler that expects a missing or unreadable file only.
CaughtByLoadOSError(exc) == exc \in {"OSError"}

\* except Exception: both exception classes derive from Exception.
CaughtByLoad(exc) == exc \in {"OSError", "JSONDecodeError"}

NoValidator == [status |-> "none", schema |-> ""]

\* ECDataValidator(schema_path): __init__ and _load_schema.
LoadSchema(res) ==
  LET attempt == LoadAttempt(res)
  IN IF attempt.raised = ""
     THEN [status |-> "constructed", schema |-> attempt.schema]
     ELSE IF CaughtByLoad(attempt.raised)
     THEN [status |-> "constructed", schema |-> "minimal"]
     ELSE [status |-> "raised", schema |-> ""]

\* One violation jsonschema finds: the length of its path and its message.
Violation(depth, fmt, arg) == [depth |-> depth, msg |-> Msg(fmt, arg)]

RequiredFmt == "Schema validation error: '{}' is a required property"
NotStringFmt == "Schema validation error: {} is not of type 'string'"
NotObjectFmt == "Schema validation error: {} is not of type 'object'"

\* "required": [...] of a (sub)schema, at path length depth.
RECURSIVE RequiredViolations(_, _, _, _)
RequiredViolations(md, prefix, keys, depth) ==
  IF keys = <<>> THEN <<>>
  ELSE Opt(~Present(md, prefix \o Head(keys)),
           Violation(depth, RequiredFmt, Head(keys)))
       \o RequiredViolations(md, prefix, Tail(keys), depth)

\* "properties": {key: {"type": "string"}} of a (sub)schema.
RECURSIVE StringViolations(_, _, _, _)
StringViolations(md, prefix, keys, depth) ==
  IF keys = <<>> THEN <<>>
  ELSE LET v == md.leaf[prefix \o Head(keys)]
       IN Opt(v.k \notin {"absent", "str"},
              Violation(depth, NotStringFmt, Repr(v)))
          \o StringViolations(md, prefix, Tail(keys), depth)

\* A property whose subschema is {"type": "object", "required", "properties"}.
ObjectViolations(md, s, keys) ==
  IF md.sec[s] = "absent" THEN <<>>
  ELSE IF md.sec[s] = "str" THEN <<Violation(1, NotObjectFmt, "<string>")>>
  ELSE RequiredViolations(md, s \o ".", keys, 1)
       \o StringViolations(md, s \o ".", keys, 2)

TechniqueRequired == <<"name">>

SetupRequired == <<"working_electrode", "reference_electrode", "electrolyte">>

\* _get_minimal_schema: every violation of the embedded minimal schema, in
\* the order the schema's keywords and properties are visited.
SchemaViolations(md) ==
  RequiredViolations(md, "",
    <<"experiment_id", "technique", "experimental_setup">>, 0)
  \o StringViolations(md, "", <<"experiment_id">>, 1)
  \o ObjectViolations(md, "technique", TechniqueRequired)
  \o ObjectViolations(md, "experimental_setup", SetupRequired)

\* jsonschema.validate raises the single most relevant violation
\* (best_match): the first one with the shortest path.
BestMatch(vs) ==
  LET least == CHOOSE d \in {vs[i].depth : i \in 1..Len(vs)} :
                 \A i \in 1..Len(vs) : d <= vs[i].depth
      first == CHOOSE i \in 1..Len(vs) :
                 /\ vs[i].depth = least
                 /\ \A j \in 1..(i - 1) : vs[j].depth # least
  IN vs[first]

SchemaValidMsg == Msg("Metadata structure is valid according to schema", "")

\* _validate_against_schema
ValidateAgainstSchema(md) ==
  LET vs == SchemaViolations(md)
  IN IF vs = <<>>
     THEN [errors |-> <<>>, warnings |-> <<SchemaValidMsg>>]
     ELSE [errors |-> <<BestMatch(vs).msg>>, warnings |-> <<>>]

\* The points each FAIR principle adds to max_score.
FindablePoints == 4
AccessiblePoints == 2
InteroperablePoints == 2
ReusablePoints == 3

\* OpenFormats with a spreadsheet format let through.
OpenFormatsWithXlsx == {"CSV", "JSON", "TSV", "XLSX"}

OpenFormats == {"CSV", "JSON", "TSV"}

\* One if/else of _check_fair_compliance: its condition, the confirmation
\* of the if branch and the warning of the else branch (NoMsg: no branch).
Check(ok, yes, no) == [ok |-> ok, yes |-> yes, no |-> no]

FairChecks(md) ==
  <<Check(Truthy(Get(md, "experiment_id")),
          Msg("F1: Unique identifier present", ""),
          Msg("F1: Missing unique identifier", "")),
    Check(Truthy(Get(md, "attribution.creator")),
          Msg("F2: Creator information provided", ""),
          Msg("F2: Consider adding creator information", "")),
    Check(Truthy(Get(md, "technique.name"))
            /\ Truthy(Get(md, "technique.description")),
          Msg("F3: Rich metadata with technique details", ""),
          Msg("F3: Add more descriptive metadata", "")),
    Check(Truthy(Get(md, "emmo_compliance.terms_used")),
          Msg("F4: Uses controlled vocabulary (EMMO)", ""),
          Msg("F4: Consider using EMMO vocabulary for better findability", "")),
    Check(Get(md, "dataset.format").k = "str"
            /\ Get(md, "dataset.format").s \in OpenFormats,
          Msg("A1: Data in open format", ""),
          Msg("A1: Consider using open data formats", "")),
    Check(Truthy(Get(md, "fair_compliance.accessible.access_protocol")),
          Msg("A2: Access protocol specified", ""),
          Msg("A2: Specify how data can be accessed", "")),
    Check(Truthy(Get(md, "schema_version")),
          Msg("I1: Uses standard metadata schema", ""),
          NoMsg),
    Check(Truthy(Get(md, "fair_compliance.interoperable.metadata_vocabulary")),
          Msg("I2: Metadata vocabulary specified", ""),
          Msg("I2: Specify metadata vocabulary used", "")),
    Check(LET license_info == Get(md, "fair_compliance.reusable.license")
          IN Truthy(license_info) /\ license_info # Str(""),
          Msg("R1: License specified ({})",
              Repr(Get(md, "fair_compliance.reusable.license"))),
          Msg("R1: Specify data license for reusability", "")),
    Check(Truthy(Get(md, "attribution.institution")),
          Msg("R2: Institutional provenance provided", ""),
          Msg("R2: Add institutional information", "")),
    Check(Truthy(Get(md, "related_work.publication_doi")),
          Msg("R3: Linked to publication", ""),
          Msg("R3: Link to related publications if available", ""))>>

\* The if/else chain run in order: score and the two message lists.
RECURSIVE RunChecks(_, _)
RunChecks(checks, acc) ==
  IF checks = <<>> THEN acc
  ELSE LET c == Head(checks)
       IN RunChecks(Tail(checks),
            IF c.ok
            THEN [acc EXCEPT !.score = @ + 1,
                             !.recommendations = @ \o Opt(c.yes # NoMsg, c.yes)]
            ELSE [acc EXCEPT !.warnings = @ \o Opt(c.no # NoMsg, c.no)])

\* The sections _check_fair_compliance calls .get() on.
FairSections ==
  {"attribution", "technique", "emmo_compliance", "dataset", "fair_compliance",
   "fair_compliance.accessible", "fair_compliance.interoperable",
   "fair_compliance.reusable", "related_work"}

\* _check_fair_compliance; score is the fraction score / max_score.
CheckFairCompliance(md) ==
  LET max_score == FindablePoints + AccessiblePoints
                     + InteroperablePoints + ReusablePoints
      run == RunChecks(FairChecks(md),
               [score |-> 0, recommendations |-> <<>>, warnings |-> <<>>])
  IN [raised |-> NotNavigable(md, FairSections),
      warnings |-> run.warnings,
      recommendations |-> run.recommendations,
      score |-> IF max_score > 0
                THEN [num |-> run.score, den |-> max_score]
                ELSE [num |-> 0, den |-> 1]]

\* _get_nested_value(data, path) is truthy: a missing key or a value that
\* cannot be indexed gives None.
NestedTruthy(md, p) ==
  IF p \in Sections
  THEN md.sec[p] = "str" \/ (md.sec[p] = "map" /\ ~EmptyMap(md, p))
  ELSE Truthy(md.leaf[p])

required_fields ==
  <<<<"technique.name", "Technique name">>,
    <<"experimental_setup.working_electrode", "Working electrode">>,
    <<"experimental_setup.reference_electrode", "Reference electrode">>,
    <<"experimental_setup.electrolyte", "Electrolyte">>,
    <<"dataset.filename", "Dataset filename">>>>

optional_but_recommended ==
  <<<<"attribution.creator", "Creator name">>,
    <<"attribution.institution", "Institution">>,
    <<"experimental_setup.temperature", "Temperature">>,
    <<"technique.parameters", "Technique parameters">>,
    <<"fair_compliance.reusable.license", "License">>,
    <<"related_work.publication_doi", "Related publication">>>>

\* CountPresent counting the fields that are missing.
RECURSIVE CountPresentMissing(_, _)
CountPresentMissing(md, fields) ==
  IF fields = <<>> THEN 0
  ELSE (IF NestedTruthy(md, Head(fields)[1]) THEN 0 ELSE 1)
       + CountPresentMissing(md, Tail(fields))

\* The two counting loops of _assess_completeness.
RECURSIVE CountPresent(_, _)
CountPresent(md, fields) ==
  IF fields = <<>> THEN 0
  ELSE (IF NestedTruthy(md, Head(fields)[1]) THEN 1 ELSE 0)
       + CountPresent(md, Tail(fields))

RECURSIVE MissingWarnings(_, _)
MissingWarnings(md, fields) ==
  IF fields = <<>> THEN <<>>
  ELSE Opt(~NestedTruthy(md, Head(fields)[1]),
           Msg("Missing required field: {}", Head(fields)[2]))
       \o MissingWarnings(md, Tail(fields))

\* score >= t for the fraction score and the threshold t = tenths / 10.
AtLeastTenths(score, tenths) == score.num * 10 >= tenths * score.den

HighTenths == 8
ModerateTenths == 6

HighFmt == "High completeness score: {}"
ModerateFmt == "Moderate completeness: {} - consider adding more details"
LowFmt == "Low completeness: {} - important information missing"

SummaryFmts == {HighFmt, ModerateFmt, LowFmt}

\* SummaryLine with the two tests in the wrong order.
SummaryLineSwapped(score) ==
  IF AtLeastTenths(score, ModerateTenths) THEN Msg(ModerateFmt, "score")
  ELSE IF AtLeastTenths(score, HighTenths) THEN Msg(HighFmt, "score")
  ELSE Msg(LowFmt, "score")

\* The summary line of _assess_completeness for a score.
SummaryLine(score) ==
  IF AtLeastTenths(score, HighTenths) THEN Msg(HighFmt, "score")
  ELSE IF AtLeastTenths(score, ModerateTenths) THEN Msg(ModerateFmt, "score")
  ELSE Msg(LowFmt, "score")

\* AssessCompleteness dividing by the number of required fields only.
AssessCompletenessRequiredOnly(md) ==
  LET total_fields == Len(required_fields)
      total_present == CountPresent(md, required_fields)
                         + CountPresent(md, optional_but_recommended)
      score == [num |-> total_present, den |-> total_fields]
  IN [warnings |-> MissingWarnings(md, required_fields) \o <<SummaryLine(score)>>,
      score |-> score]

\* _assess_completeness
AssessCompleteness(md) ==
  LET total_fields == Len(required_fields) + Len(optional_but_recommended)
      total_present == CountPresent(md, required_fields)
                         + CountPresent(md, optional_but_recommended)
      score == [num |-> total_present, den |-> total_fields]
  IN [warnings |-> MissingWarnings(md, required_fields) \o <<SummaryLine(score)>>,
      score |-> score]

\* The thresholds of the technique checkers, in thousandths.
ScanRateHigh == 10000
NarrowWindow == 100
AcAmplitudeHigh == 100
PulseWidthShort == 10
SwvFrequencyHigh == 1000000
StepTimeShort == 100

\* The outcome of a checker: it raised, or its two message lists.
Outcome(raised, errors, warnings) ==
  [raised |-> raised, errors |-> errors, warnings |-> warnings]

Param(md, name) == md.leaf["technique.parameters." \o name]

\* A comparison of a value with a number raises TypeError unless the value
\* is a number.
IsNum(v) == v.k = "num"

Abs(i) == IF i < 0 THEN -i ELSE i

\* ValidateCvParameters with the window test skipped once the scan rate
\* is in error.
ValidateCvParametersEarlyReturn(md) ==
  LET scan_rate == Param(md, "scan_rate")
      start_pot == Param(md, "start_potential")
      end_pot == Param(md, "end_potential")
      both == start_pot.k # "absent" /\ end_pot.k # "absent"
      rateErr == scan_rate.k # "absent"
                   /\ (~IsNum(scan_rate) \/ scan_rate.n <= 0)
      rateHigh == scan_rate.k # "absent" /\ ~rateErr
                   /\ scan_rate.n > ScanRateHigh
  IN IF rateErr
     THEN Outcome(FALSE,
            <<Msg("CV scan rate must be positive number", "")>>, <<>>)
     ELSE Outcome(both /\ ~(IsNum(start_pot) /\ IsNum(end_pot)),
            <<>>,
            Opt(rateHigh,
                Msg("CV scan rate seems high (>10 V/s) - please verify", ""))
            \o Opt(both /\ IsNum(start_pot) /\ IsNum(end_pot)
                     /\ Abs(end_pot.n - start_pot.n) < NarrowWindow,
                   Msg("CV potential window seems narrow (<0.1 V)", "")))

\* _validate_cv_parameters
ValidateCvParameters(md) ==
  LET scan_rate == Param(md, "scan_rate")
      start_pot == Param(md, "start_potential")
      end_pot == Param(md, "end_potential")
      both == start_pot.k # "absent" /\ end_pot.k # "absent"
      rateErr == scan_rate.k # "absent"
                   /\ (~IsNum(scan_rate) \/ scan_rate.n <= 0)
      rateHigh == scan_rate.k # "absent" /\ ~rateErr
                   /\ scan_rate.n > ScanRateHigh
  IN Outcome(both /\ ~(IsNum(start_pot) /\ IsNum(end_pot)),
       Opt(rateErr, Msg("CV scan rate must be positive number", "")),
       Opt(rateHigh, Msg("CV scan rate seems high (>10 V/s) - please verify", ""))
       \o Opt(both /\ IsNum(start_pot) /\ IsNum(end_pot)
                /\ Abs(end_pot.n - start_pot.n) < NarrowWindow,
              Msg("CV potential window seems narrow (<0.1 V)", "")))

\* The lexicographic order of the texts that stand in for numbers.
TextRank(s) ==
  CASE s = "fast" -> 1
    [] s = "high" -> 2
    [] s = "low" -> 3

\* a <= b in Python: numbers by value, strings lexicographically, a string
\* against a number raises TypeError.
LeqRaises(a, b) == a.k # b.k

Leq(a, b) == IF IsNum(a) THEN a.n <= b.n ELSE TextRank(a.s) <= TextRank(b.s)

\* _validate_eis_parameters
ValidateEisParameters(md) ==
  LET freq_range == Param(md, "frequency_range")
      ac_amplitude == Param(md, "ac_amplitude")
      ranged == Truthy(freq_range) /\ freq_range.k = "list"
                  /\ Len(freq_range.l) >= 2
  IN Outcome(\/ ranged /\ LeqRaises(freq_range.l[1], freq_range.l[2])
             \/ ac_amplitude.k # "absent" /\ ~IsNum(ac_amplitude),
       <<>>,
       Opt(ranged /\ ~LeqRaises(freq_range.l[1], freq_range.l[2])
             /\ Leq(freq_range.l[1], freq_range.l[2]),
           Msg("EIS frequency range should be [high, low]", ""))
       \o Opt(IsNum(ac_amplitude) /\ ac_amplitude.n > AcAmplitudeHigh,
              Msg("EIS AC amplitude >0.1V may cause non-linear response", "")))

\* ValidatePulseParameters applying both tests to either technique.
ValidatePulseParametersBoth(md, tech) ==
  LET pulse_width == Param(md, "pulse_width")
      frequency == Param(md, "frequency")
  IN Outcome(\/ pulse_width.k # "absent" /\ ~IsNum(pulse_width)
             \/ frequency.k # "absent" /\ ~IsNum(frequency),
       <<>>,
       Opt(IsNum(pulse_width) /\ pulse_width.n < PulseWidthShort,
           Msg("DPV pulse width <10ms may be too short", ""))
       \o Opt(IsNum(frequency) /\ frequency.n > SwvFrequencyHigh,
              Msg("SWV frequency >1000Hz may be too high", "")))

\* _validate_pulse_parameters
ValidatePulseParameters(md, tech) ==
  LET pulse_width == Param(md, "pulse_width")
      frequency == Param(md, "frequency")
  IN IF tech = "DPV"
     THEN Outcome(pulse_width.k # "absent" /\ ~IsNum(pulse_width),
            <<>>,
            Opt(IsNum(pulse_width) /\ pulse_width.n < PulseWidthShort,
                Msg("DPV pulse width <10ms may be too short", "")))
     ELSE IF tech = "SWV"
     THEN Outcome(frequency.k # "absent" /\ ~IsNum(frequency),
            <<>>,
            Opt(IsNum(frequency) /\ frequency.n > SwvFrequencyHigh,
                Msg("SWV frequency >1000Hz may be too high", "")))
     ELSE Outcome(FALSE, <<>>, <<>>)

\* any(t < 0.1 for t in step_times): stops at the first short time, raises
\* at an entry that is not a number.
RECURSIVE AnyShort(_, _)
AnyShort(ts, i) ==
  IF i > Len(ts) THEN "false"
  ELSE IF ~IsNum(ts[i]) THEN "raise"
  ELSE IF ts[i].n < StepTimeShort THEN "true"
  ELSE AnyShort(ts, i + 1)

\* _validate_ca_parameters
ValidateCaParameters(md) ==
  LET step_times == Param(md, "step_times")
      listed == Truthy(step_times) /\ step_times.k = "list"
      short == IF listed THEN AnyShort(step_times.l, 1) ELSE "false"
  IN Outcome(short = "raise", <<>>,
       Opt(short = "true",
           Msg("CA step times <0.1s may be too short for steady-state", "")))

\* _validate_technique_parameters
ValidateTechniqueParameters(md) ==
  LET technique_name == Get(md, "technique.name")
      isName(t) == technique_name = Str(t)
  IN IF NotNavigable(md, {"technique"}) THEN Outcome(TRUE, <<>>, <<>>)
     ELSE IF ~Truthy(technique_name)
     THEN Outcome(FALSE, <<Msg("Technique name is required", "")>>, <<>>)
     ELSE IF \E t \in {"CV", "EIS", "DPV", "SWV", "CA"} : isName(t)
               /\ md.sec["technique.parameters"] = "str"
     THEN Outcome(TRUE, <<>>, <<>>)
     ELSE IF isName("CV") THEN ValidateCvParameters(md)
     ELSE IF isName("EIS") THEN ValidateEisParameters(md)
     ELSE IF isName("DPV") \/ isName("SWV")
     THEN ValidatePulseParameters(md, technique_name.s)
     ELSE IF isName("CA") THEN ValidateCaParameters(md)
     ELSE Outcome(FALSE, <<>>, <<>>)

\* The report before any call, and the outcome of a call that raised.
NoScore == [num |-> 0, den |-> 1]

Report(status, errors, warnings, info, fair, completeness) ==
  [status |-> status, errors |-> errors, warnings |-> warnings, info |-> info,
   fair_score |-> fair, completeness_score |-> completeness]

NoReport == Report("none", <<>>, <<>>, <<>>, NoScore, NoScore)

Raised == Report("raised", <<>>, <<>>, <<>>, NoScore, NoScore)

\* ValidateMetadata with the technique pass's messages put first.
ValidateMetadataTechniqueFirst(md) ==
  LET schema_results == ValidateAgainstSchema(md)
      fair_results == CheckFairCompliance(md)
      completeness_results == AssessCompleteness(md)
      technique_results == ValidateTechniqueParameters(md)
  IN IF fair_results.raised \/ technique_results.raised THEN Raised
     ELSE Report("returned",
            technique_results.errors \o schema_results.errors,
            technique_results.warnings \o schema_results.warnings
              \o fair_results.warnings \o completeness_results.warnings,
            fair_results.recommendations,
            fair_results.score,
            completeness_results.score)

\* validate_metadata: the four passes in order; an exception of the FAIR or
\* the technique pass propagates to the caller.
ValidateMetadata(md) ==
  LET schema_results == ValidateAgainstSchema(md)
      fair_results == CheckFairCompliance(md)
      completeness_results == AssessCompleteness(md)
      technique_results == ValidateTechniqueParameters(md)
  IN IF fair_results.raised \/ technique_results.raised THEN Raised
     ELSE Report("returned",
            schema_results.errors \o technique_results.errors,
            schema_results.warnings \o fair_results.warnings
              \o completeness_results.warnings \o technique_results.warnings,
            fair_results.recommendations,
            fair_results.score,
            completeness_results.score)

\* Nothing rendered yet.
NotRendered == [rendered |-> FALSE, shown |-> {}]

\* render_validation_results showing the success box whenever there is no
\* error.
RenderValidationResultsErrorsOnly(results) ==
  [rendered |-> TRUE,
   shown |-> (IF results.errors # <<>> THEN {"errors"} ELSE {})
             \cup (IF results.warnings # <<>> THEN {"warnings"} ELSE {})
             \cup (IF results.errors = <<>> THEN {"passed"} ELSE {})]

\* render_validation_results: the boxes it shows: the errors, the
\* recommendations, and "Metadata validation passed!".
RenderValidationResultsOf(results) ==
  [rendered |-> TRUE,
   shown |-> (IF results.errors # <<>> THEN {"errors"} ELSE {})
             \cup (IF results.warnings # <<>> THEN {"warnings"} ELSE {})
             \cup (IF results.errors = <<>> /\ results.warnings = <<>>
                   THEN {"passed"} ELSE {})]

\* RecordAfterValidate for passes that read sections with setdefault.
RecordAfterValidateSetDefault(md) ==
  IF md.sec["technique"] = "absent" THEN WithSectionKind(md, "technique", "map")
  ELSE IF md.sec["dataset"] = "absent" THEN WithSectionKind(md, "dataset", "map")
  ELSE WithSection(md, "fair_compliance.accessible")

\* The caller's record as validate_metadata leaves it: every pass reads it
\* with .get(key, default) and indexing, and appends to lists of its own.
RecordAfterValidate(md) == md

(***************************************************************************)
(* Enrichment: enrich_metadata_with_emmo.                                  *)
(***************************************************************************)

\* The texts records hold as technique name and as experimental setup.
TechniqueTexts ==
  {"CV", "EIS", "DPV", "SWV", "CA", "LSV", "cv", "eis", "dpv", "swv", "ca",
   "lsv", "Cv", "eIS", "Dpv", "sWv", "Ca", "cyclic voltammetry", "platinum"}

SetupTexts == {"GC", "Ag/AgCl", "0.1 M KCl", "25 C"}

\* validate_technique and suggest_terms on those texts, evaluated once.
MatchedTerm == [t \in TechniqueTexts |-> ValidateTechniqueOf(Chars(t))]

Suggested == [t \in SetupTexts |-> SuggestTermsOf(Chars(t), "")]

OntologyUrl == "https://w3id.org/emmo/domain/electrochemistry"

\* The keys of experimental_setup, in the order .items() visits them.
SetupFields ==
  <<"working_electrode", "reference_electrode", "electrolyte", "temperature">>

\* The loop over exp_setup.items(): the vocabulary_mapping entries.
RECURSIVE VocabularySuggestions(_, _)
VocabularySuggestions(md, k) ==
  IF k > Len(SetupFields) THEN <<>>
  ELSE LET value == md.leaf["experimental_setup." \o SetupFields[k]]
           hit == Truthy(value) /\ value.k = "str"
                    /\ Suggested[value.s] # <<>>
       IN Opt(hit,
              <<"emmo_compliance.vocabulary_mapping." \o SetupFields[k],
                Str(LocalTerms[Suggested[value.s][1]].label)>>)
          \o VocabularySuggestions(md, k + 1)

\* enrich_metadata_with_emmo(metadata).  enriched = metadata.copy() copies
\* the top-level keys only: enriched["technique"] is the very mapping that
\* metadata["technique"] is, so what is stored into it shows in both, while
\* enriched["emmo_compliance"] = ... rebinds a key of the copy alone.
\* The outcome: whether the call raised, the record returned, and the
\* caller's record as the call leaves it.
EnrichMetadataWithEmmo(md) ==
  LET technique_name == Get(md, "technique.name")
      named == md.sec["technique"] # "str" /\ Truthy(technique_name)
      emmo_term == IF named /\ technique_name.k = "str"
                   THEN MatchedTerm[technique_name.s] ELSE 0
      shared == IF emmo_term = 0 THEN md
                ELSE WithLeaves(md,
                       <<<<"technique.emmo_iri", Str(LocalTerms[emmo_term].iri)>>,
                         <<"technique.emmo_label",
                           Str(LocalTerms[emmo_term].label)>>,
                         <<"technique.emmo_definition",
                           Str(LocalTerms[emmo_term].definition)>>>>)
      section == WithLeaves(WithSectionKind(
                     WithSectionKind(shared, "emmo_compliance", "map"),
                     "emmo_compliance.vocabulary_mapping", "map"),
                   <<<<"emmo_compliance.ontology_version", Str(OntologyUrl)>>,
                     <<"emmo_compliance.terms_used",
                       List(IF emmo_term = 0 THEN <<>>
                            ELSE <<Str(LocalTerms[emmo_term].label)>>)>>>>)
      raises == \/ md.sec["technique"] = "str"
                \/ named /\ technique_name.k # "str"
                \/ md.sec["experimental_setup"] = "str"
  IN [status |-> IF raises THEN "raised" ELSE "returned",
      record |-> IF raises THEN EmptyRecord
                 ELSE WithLeaves(section, VocabularySuggestions(md, 1)),
      input |-> shared]

(***************************************************************************)
(* The records the validator is run on: a record a caller built (one of    *)
(* the records of the test suite, or the empty mapping), then changed key  *)
(* by key, at most MaxEdits keys, in the order of PathOrder.               *)
(***************************************************************************)

\* test_comprehensive_metadata_validation
ComprehensiveRecord ==
  WithLeaves(EmptyRecord,
    <<<<"experiment_id", Str("test-uuid")>>,
      <<"technique.name", Str("CV")>>,
      <<"technique.parameters.scan_rate", Num(100)>>,
      <<"experimental_setup.working_electrode", Str("GC")>>,
      <<"experimental_setup.reference_electrode", Str("Ag/AgCl")>>,
      <<"experimental_setup.electrolyte", Str("0.1 M KCl")>>,
      <<"dataset.filename", Str("test.csv")>>,
      <<"dataset.format", Str("CSV")>>>>)

\* The good_metadata of test_fair_compliance_scoring, with every other key
\* the validator reads filled in.
FullRecord ==
  WithLeaves(ComprehensiveRecord,
    <<<<"experiment_id", Str("test-123-456")>>,
      <<"schema_version", Str("1.0")>>,
      <<"technique.description", Str("Cyclic voltammetry measurement")>>,
      <<"experimental_setup.temperature", Str("25 C")>>,
      <<"attribution.creator", Str("Test Researcher")>>,
      <<"attribution.institution", Str("Test University")>>,
      <<"fair_compliance.accessible.access_protocol", Str("Download")>>,
      <<"fair_compliance.interoperable.metadata_vocabulary", Str("EMMO")>>,
      <<"fair_compliance.reusable.license", Str("CC-BY-4.0")>>,
      <<"related_work.publication_doi", Str("10.1000/test123")>>,
      <<"emmo_compliance.ontology_version",
        Str("https://w3id.org/emmo/domain/electrochemistry")>>,
      <<"emmo_compliance.terms_used", List(<<Str("CyclicVoltammetry")>>)>>>>)

\* The invalid_params of test_cv_parameter_validation in a CV record.
InvalidCvRecord ==
  WithLeaves(ComprehensiveRecord,
    <<<<"technique.parameters.scan_rate", Num(-100)>>,
      <<"technique.parameters.start_potential", Num(500)>>,
      <<"technique.parameters.end_potential", Num(510)>>>>)

BaseRecords == {EmptyRecord, ComprehensiveRecord, FullRecord, InvalidCvRecord}

\* The values a key is changed to.
LeafValues(p) ==
  CASE p = "experiment_id" -> {AbsentV, Str(""), Str("test-uuid"), Num(7)}
    [] p = "schema_version" -> {AbsentV, Str("1.0")}
    [] p = "technique.name" ->
         {AbsentV, Str(""), Str("CV"), Str("EIS"), Str("DPV"), Str("SWV"),
          Str("CA"), Str("LSV"), Num(7)}
    [] p = "technique.description" ->
         {AbsentV, Str(""), Str("Cyclic voltammetry measurement")}
    [] p = "technique.parameters.scan_rate" ->
         {AbsentV, Num(-100), Num(0), Num(100), Num(10000), Num(15000),
          Str("fast")}
    [] p = "technique.parameters.start_potential" ->
         {AbsentV, Num(-200), Str("low")}
    [] p = "technique.parameters.end_potential" ->
         {AbsentV, Num(-150), Num(600), Str("high")}
    [] p = "technique.parameters.frequency_range" ->
         {AbsentV, List(<<Num(100000000), Num(10)>>),
          List(<<Num(10), Num(100000000)>>), List(<<Num(10), Num(10)>>),
          List(<<Num(10)>>),
          List(<<Str("high"), Str("low")>>), List(<<Str("high"), Num(10)>>)}
    [] p = "technique.parameters.ac_amplitude" ->
         {AbsentV, Num(10), Num(100), Num(200), Str("high")}
    [] p = "technique.parameters.pulse_width" ->
         {AbsentV, Num(50), Num(10), Num(5), Str("fast")}
    [] p = "technique.parameters.frequency" ->
         {AbsentV, Num(25000), Num(1000000), Num(1500000), Str("high")}
    [] p = "technique.parameters.step_times" ->
         {AbsentV, List(<<Num(1000), Num(5000)>>),
          List(<<Num(100), Num(1000)>>), List(<<Num(1000), Num(80)>>),
          List(<<Num(50), Str("fast")>>), List(<<Str("fast"), Num(50)>>)}
    [] p \in {"experimental_setup.working_electrode",
              "experimental_setup.reference_electrode",
              "experimental_setup.electrolyte"} ->
         {AbsentV, Str(""), Str("GC")}
    [] p = "experimental_setup.temperature" -> {AbsentV, Str("25 C")}
    [] p = "dataset.filename" -> {AbsentV, Str("test.csv")}
    [] p = "dataset.format" -> {AbsentV, Str("CSV"), Str("XLSX")}
    [] p = "attribution.creator" -> {AbsentV, Str(""), Str("Test Researcher")}
    [] p = "attribution.institution" -> {AbsentV, Str("Test University")}
    [] p = "fair_compliance.accessible.access_protocol" ->
         {AbsentV, Str("Download")}
    [] p = "fair_compliance.interoperable.metadata_vocabulary" ->
         {AbsentV, Str("EMMO")}
    [] p = "fair_compliance.reusable.license" ->
         {AbsentV, Str(""), Str("CC-BY-4.0")}
    [] p = "related_work.publication_doi" -> {AbsentV, Str("10.1000/test123")}
    [] p = "emmo_compliance.terms_used" ->
         {AbsentV, List(<<>>), List(<<Str("CyclicVoltammetry")>>)}
    [] OTHER -> {}

\* What a section key is rebound to: a plain string is what create_minimal
\* puts under "technique".
SectionKinds(s) ==
  IF s \in {"technique", "experimental_setup"}
  THEN {"absent", "map", "str"}
  ELSE IF s = "emmo_compliance.vocabulary_mapping" THEN {}
  ELSE {"absent", "map"}

NoEnrichment == [status |-> "none", record |-> EmptyRecord]

ParentIsMap(md, p) ==
  IF ParentOf(p) = "" THEN TRUE ELSE md.sec[ParentOf(p)] = "map"

ValInit ==
  /\ metadata \in BaseRecords
  /\ report = NoReport
  /\ enriched = NoEnrichment
  /\ before = EmptyRecord
  /\ cursor = 0
  /\ edits = 0
  /\ again = NoReport
  /\ boxes = NotRendered

\* The caller sets or removes one key of the record.
SetLeaf ==
  /\ report.status = "none"
  /\ enriched.status = "none"
  /\ edits < MaxEdits
  /\ \E i \in (cursor + 1)..Len(PathOrder) :
       LET p == PathOrder[i]
       IN /\ p \in LeafPaths
          /\ ParentIsMap(metadata, p)
          /\ \E v \in LeafValues(p) \ {metadata.leaf[p]} :
               metadata' = [metadata EXCEPT !.leaf[p] = v]
          /\ cursor' = i
  /\ edits' = edits + 1
  /\ UNCHANGED <<report, enriched, before, again, boxes>>
  /\ UNCHANGED <<colVars, schVars, vocVars, regVars, idVars, appVars>>

\* The caller removes a section, or rebinds its key to {} or to a string.
SetSection ==
  /\ report.status = "none"
  /\ enriched.status = "none"
  /\ edits < MaxEdits
  /\ \E i \in (cursor + 1)..Len(PathOrder) :
       LET s == PathOrder[i]
       IN /\ s \in Sections
          /\ ParentIsMap(metadata, s)
          /\ \E kind \in SectionKinds(s) \ {metadata.sec[s]} :
               metadata' = WithSectionKind(metadata, s, kind)
          /\ cursor' = i
  /\ edits' = edits + 1
  /\ UNCHANGED <<report, enriched, before, again, boxes>>
  /\ UNCHANGED <<colVars, schVars, vocVars, regVars, idVars, appVars>>

\* validator = ECDataValidator(schema_path)
Construct ==
  /\ validator.status = "none"
  /\ validator' = LoadSchema(resource)
  /\ UNCHANGED <<colVars, valVars, resource, vocVars,
               regVars, idVars, appVars>>

\* validator.validate_metadata(metadata), for a validator that holds the
\* embedded minimal schema (the schema file is not part of the sources).
Validate ==
  /\ validator.status = "constructed"
  /\ validator.schema = "minimal"
  /\ report.status = "none"
  /\ enriched.status = "none"
  /\ report' = ValidateMetadata(metadata)
  /\ metadata' = RecordAfterValidate(metadata)
  /\ before' = metadata
  /\ UNCHANGED <<enriched, cursor, edits, again, boxes>>
  /\ UNCHANGED <<colVars, schVars, vocVars, regVars, idVars, appVars>>

\* validator.validate_metadata(metadata) once more, nothing in between.
ValidateAgain ==
  /\ validator.status = "constructed"
  /\ validator.schema = "minimal"
  /\ report.status # "none"
  /\ again.status = "none"
  /\ again' = ValidateMetadata(metadata)
  /\ metadata' = RecordAfterValidate(metadata)
  /\ UNCHANGED <<report, enriched, before, cursor, edits, boxes>>
  /\ UNCHANGED <<colVars, schVars, vocVars, regVars, idVars, appVars>>

\* ui.render_validation_results(validation_results)
RenderValidationResults ==
  /\ report.status = "returned"
  /\ ~boxes.rendered
  /\ boxes' = RenderValidationResultsOf(report)
  /\ UNCHANGED <<metadata, report, enriched, before, cursor, edits, again>>
  /\ UNCHANGED <<colVars, schVars, vocVars, regVars, idVars, appVars>>

\* enriched = emmo.enrich_metadata_with_emmo(metadata)
Enrich ==
  /\ report.status = "none"
  /\ enriched.status = "none"
  /\ LET out == EnrichMetadataWithEmmo(metadata)
     IN /\ enriched' = [status |-> out.status, record |-> out.record]
        /\ metadata' = out.input
  /\ before' = metadata
  /\ UNCHANGED <<report, cursor, edits, again, boxes>>
  /\ UNCHANGED <<colVars, schVars, vocVars, regVars, idVars, appVars>>

\* validator.validate_metadata(metadata) on the record enrich returned, as
\* main() of app.py calls it.
ValidateEnriched ==
  /\ validator.status = "constructed"
  /\ validator.schema = "minimal"
  /\ enriched.status = "returned"
  /\ report.status = "none"
  /\ report' = ValidateMetadata(enriched.record)
  /\ UNCHANGED <<metadata, enriched, before, cursor, edits, again, boxes>>
  /\ UNCHANGED <<colVars, schVars, vocVars, regVars, idVars, appVars>>

ValNext == SetLeaf \/ SetSection \/ Validate \/ Enrich

(***************************************************************************)
(* The technique registry: config/techniques.py.                           *)
(***************************************************************************)

\* A TechniqueParameter: its name, default value and unit.
TechniqueParameter(name, default_value, unit) ==
  [name |-> name, default_value |-> default_value, unit |-> unit]

\* The keys of TECHNIQUE_PARAMETERS, in the order of the dictionary.
TechniqueKeys == <<"CV", "DPV", "SWV", "EIS", "CA">>

\* TECHNIQUE_PARAMETERS: for each technique its parameters, in order.
TECHNIQUE_PARAMETERS ==
  [t \in {TechniqueKeys[i] : i \in 1..Len(TechniqueKeys)} |->
     CASE t = "CV" ->
            <<TechniqueParameter("scan_rate", Num(100), "V/s"),
              TechniqueParameter("start_potential", Num(-200), "V"),
              TechniqueParameter("end_potential", Num(600), "V"),
              TechniqueParameter("step_size", Num(2), "V"),
              TechniqueParameter("cycles", Num(1000), "")>>
       [] t = "DPV" ->
            <<TechniqueParameter("pulse_amplitude", Num(50), "V"),
              TechniqueParameter("pulse_width", Num(50), "s"),
              TechniqueParameter("step_potential", Num(5), "V"),
              TechniqueParameter("scan_rate", Num(10), "V/s")>>
       [] t = "SWV" ->
            <<TechniqueParameter("frequency", Num(25000), "Hz"),
              TechniqueParameter("amplitude", Num(25), "V"),
              TechniqueParameter("step_height", Num(4), "V")>>
       [] t = "EIS" ->
            <<TechniqueParameter("frequency_range", List(<<Num(100000000), Num(10)>>), "Hz"),
              TechniqueParameter("ac_amplitude", Num(10), "V"),
              TechniqueParameter("bias_potential", Num(0), "V"),
              TechniqueParameter("equilibration_time", Num(10000), "s")>>
       [] t = "CA" ->
            <<TechniqueParameter("step_potentials", List(<<Num(0), Num(500)>>), "V"),
              TechniqueParameter("step_times", List(<<Num(5000), Num(60000)>>), "s"),
              TechniqueParameter("total_duration", Num(65000), "s")>>]

\* TECHNIQUE_DESCRIPTIONS
TECHNIQUE_DESCRIPTIONS ==
  [t \in {"CV", "DPV", "SWV", "EIS", "CA"} |->
     CASE t = "CV" ->
            "Cyclic Voltammetry - Potential swept linearly between limits"
       [] t = "DPV" ->
            "Differential Pulse Voltammetry - Series of potential pulses"
       [] t = "SWV" ->
            "Square Wave Voltammetry - Square wave potential modulation"
       [] t = "EIS" ->
            "Electrochemical Impedance Spectroscopy - AC frequency response"
       [] t = "CA" ->
            "Chronoamperometry - Current response to potential steps"]

\* get_technique_list(): the keys of TECHNIQUE_PARAMETERS as a list.
GetTechniqueList == TechniqueKeys

\* What a registry call gives back: a mapping (its parameters in order), a
\* text, or the exception it raised.
NoFound == [status |-> "none", params |-> <<>>, values |-> <<>>, text |-> ""]

FoundParams(ps) == [NoFound EXCEPT !.status = "returned", !.params = ps]

FoundValues(vs) == [NoFound EXCEPT !.status = "returned", !.values = vs]

FoundText(s) == [NoFound EXCEPT !.status = "returned", !.text = s]

FoundRaised(exc) == [NoFound EXCEPT !.status = "raised", !.text = exc]

\* get_technique_parameters: TECHNIQUE_PARAMETERS.get(technique, {})
GetTechniqueParametersOf(id) ==
  IF id \in DOMAIN TECHNIQUE_PARAMETERS
  THEN FoundParams(TECHNIQUE_PARAMETERS[id])
  ELSE FoundParams(<<>>)

\* get_default_values: {name: param.default_value for each parameter}
GetDefaultValuesOf(id) ==
  LET params == GetTechniqueParametersOf(id).params
  IN FoundValues([i \in 1..Len(params) |->
                    [name |-> params[i].name,
                     value |-> params[i].default_value]])

\* TECHNIQUE_DESCRIPTIONS[technique]: a KeyError for an unknown key.
GetTechniqueDescriptionIndexed(id) ==
  IF id \in DOMAIN TECHNIQUE_DESCRIPTIONS
  THEN FoundText(TECHNIQUE_DESCRIPTIONS[id])
  ELSE FoundRaised("KeyError")

\* get_technique_description:
\* TECHNIQUE_DESCRIPTIONS.get(technique, "Unknown technique")
GetTechniqueDescriptionOf(id) ==
  IF id \in DOMAIN TECHNIQUE_DESCRIPTIONS
  THEN FoundText(TECHNIQUE_DESCRIPTIONS[id])
  ELSE FoundText("Unknown technique")

(***************************************************************************)
(* Identifier formats: validate_orcid and validate_doi.  A text is a       *)
(* sequence of characters; a character outside ASCII is written as its     *)
(* code point ("U+0663" is ARABIC-INDIC DIGIT THREE).                      *)
(***************************************************************************)
AsciiDigits == {"0", "1", "2", "3", "4", "5", "6", "7", "8", "9"}

\* The characters \d matches in a str pattern: every Unicode decimal digit.
DecimalDigits == AsciiDigits \cup {"U+0663", "U+FF10"}

\* The characters \s matches in a str pattern (and \S does not).
Whitespace == {" ", "U+0009", "U+000A", "U+00A0"}

\* Is character c in the class?  A class is \d, \S, [0-9X] or one literal.
InClass(c, cls) ==
  CASE cls = "digit" -> c \in DecimalDigits
    [] cls = "digit_or_X" -> c \in AsciiDigits \cup {"X"}
    [] cls = "nonspace" -> c \notin Whitespace
    [] OTHER -> c = cls

\* The items of a pattern: ^, $, and a class repeated from lo to hi times
\* (hi = -1: no upper limit).
Bos == [kind |-> "^", cls |-> "", lo |-> 0, hi |-> 0]

Eos == [kind |-> "$", cls |-> "", lo |-> 0, hi |-> 0]

Rep(cls, lo, hi) == [kind |-> "class", cls |-> cls, lo |-> lo, hi |-> hi]

Lit(c) == Rep(c, 1, 1)

\* The positions the match can be at after one more item, from positions ps.
\* $ matches at the end and just before a line feed that ends the text.
StepItem(item, s, ps) ==
  CASE item.kind = "^" -> {p \in ps : p = 1}
    [] item.kind = "$" ->
         {p \in ps : p = Len(s) + 1 \/ (p = Len(s) /\ s[p] = "U+000A")}
    [] OTHER ->
         LET hi == IF item.hi < 0 THEN Len(s) ELSE item.hi
         IN UNION {{q \in (p + item.lo)..(p + hi) :
                      /\ q <= Len(s) + 1
                      /\ \A i \in p..(q - 1) : InClass(s[i], item.cls)} :
                   p \in ps}

RECURSIVE Advance(_, _, _)
Advance(items, s, ps) ==
  IF items = <<>> THEN ps
  ELSE Advance(Tail(items), s, StepItem(Head(items), s, ps))

\* bool(re.fullmatch(pattern, s)): the pattern matches the whole of s.
ReFullmatch(pattern, s) == (Len(s) + 1) \in Advance(pattern, s, {1})

\* r"^\d{4}-\d{4}-\d{4}-\d{3}[0-9X]$"
OrcidPattern ==
  <<Bos, Rep("digit", 4, 4), Lit("-"), Rep("digit", 4, 4), Lit("-"),
    Rep("digit", 4, 4), Lit("-"), Rep("digit", 3, 3), Rep("digit_or_X", 1, 1), Eos>>

\* r"^10\.\d{4,9}/[\S]+$"
DoiPattern ==
  <<Bos, Lit("1"), Lit("0"), Lit("."), Rep("digit", 4, 9), Lit("/"),
    Rep("nonspace", 1, -1), Eos>>

\* validate_orcid
ValidateOrcid(orcid) == ReFullmatch(OrcidPattern, orcid)

\* validate_doi
ValidateDoi(doi) == ReFullmatch(DoiPattern, doi)

(***************************************************************************)
(* The application: main() of app.py.  Every interaction with the page     *)
(* runs main() once more from the top, over the session state the run      *)
(* before left.                                                            *)
(***************************************************************************)

\* What uploads hold, as pd.read_csv finds them: a table with numeric
\* columns, a table of text, a header line only, nothing at all
\* (EmptyDataError), lines that do not parse (ParserError).
FileKinds == {"table", "text_table", "headers_only", "no_data", "malformed"}

\* An uploaded file; id counts the uploads of the session.
File(id, kind) == [id |-> id, kind |-> kind]

NoFile == File(0, "none")

\* pd.read_csv(uploaded_file) under the encodings tried in turn.
ReadCsv(file) ==
  CASE file.kind \in {"table", "text_table"} -> "table"
    [] file.kind = "headers_only" -> "empty_table"
    [] file.kind = "no_data" -> "EmptyDataError"
    [] file.kind = "malformed" -> "ParserError"

NoStoredMetadata == [filename |-> 0, complete |-> FALSE]

\* metadata_gen.generate_metadata(..., dataset_info): the record names the
\* file of dataset_info.
GenerateMetadata(dataset_info) ==
  [filename |-> dataset_info.filename, complete |-> TRUE]

\* st.session_state after the keys are initialised; df = 0: no "df" key.
FreshSession ==
  [uploaded_file |-> NoFile, df |-> 0, metadata |-> NoStoredMetadata,
   validation_results |-> FALSE]

NoBundle == [data |-> 0, metadata |-> NoStoredMetadata]

\* create_fair_bundle(uploaded_file, yaml_str, metadata)
CreateFairBundle(uploaded_file, md) == [data |-> uploaded_file.id, metadata |-> md]

\* One run of main(): the file in the uploader, the button pressed (if
\* any), whether the required details are filled in, the session state.
\* Gives the session state, the buttons on the page and the bundle built.
Main(up, pressed, filled, ses) ==
  LET \* Tab 1
      outcome == IF up = NoFile THEN "none" ELSE ReadCsv(up)
      s1 == IF up = NoFile THEN ses ELSE [ses EXCEPT !.uploaded_file = up]
      returned1 == outcome = "empty_table"
      s2 == IF outcome = "table" THEN [s1 EXCEPT !.df = up.id] ELSE s1
      \* Tab 2
      tab2 == ~returned1 /\ s2.uploaded_file # NoFile
      generate == tab2 /\ pressed = "generate"
      returned2 == generate /\ ~filled
      dataset_info == [filename |-> s2.uploaded_file.id]
      s3 == IF generate /\ filled
            THEN [s2 EXCEPT !.metadata = GenerateMetadata(dataset_info),
                            !.validation_results = TRUE]
            ELSE s2
      \* Tab 3
      tab3 == tab2 /\ ~returned2 /\ s3.metadata # NoStoredMetadata
      create == tab3 /\ pressed = "bundle"
  IN [session |-> s3,
      page |-> [notice |-> outcome, preview |-> IF tab2 THEN s2.df ELSE 0,
                generate_button |-> tab2, bundle_button |-> tab3],
      bundle |-> IF create THEN CreateFairBundle(s3.uploaded_file, s3.metadata)
                 ELSE NoBundle]

FirstPage == Main(NoFile, "none", FALSE, FreshSession).page

AppInit ==
  /\ uploader = NoFile
  /\ session = FreshSession
  /\ page = FirstPage
  /\ bundle = NoBundle
  /\ uploads = 0

\* A run of main() after an interaction.
Rerun(up, pressed, filled) ==
  LET run == Main(up, pressed, filled, session)
  IN /\ uploader' = up
     /\ session' = run.session
     /\ page' = run.page
     /\ bundle' = IF run.bundle # NoBundle THEN run.bundle ELSE bundle
     /\ UNCHANGED <<colVars, valVars, schVars, vocVars, regVars, idVars>>

\* The user puts a file in the uploader.
UploadFile ==
  /\ uploads < MaxUploads
  /\ uploads' = uploads + 1
  /\ \E kind \in FileKinds : Rerun(File(uploads + 1, kind), "none", FALSE)

\* The user takes the file out of the uploader.
RemoveFile ==
  /\ uploader # NoFile
  /\ UNCHANGED uploads
  /\ Rerun(NoFile, "none", FALSE)

\* The user presses "Generate Metadata".
PressGenerate ==
  /\ page.generate_button
  /\ UNCHANGED uploads
  /\ \E filled \in BOOLEAN : Rerun(uploader, "generate", filled)

\* The user presses "Create FAIR Bundle".
PressCreateBundle ==
  /\ page.bundle_button
  /\ UNCHANGED uploads
  /\ Rerun(uploader, "bundle", TRUE)

AppNext == UploadFile \/ RemoveFile \/ PressGenerate \/ PressCreateBundle

(***************************************************************************)
(* Specifications: the data preview and the validator are independent;     *)
(* each specification runs one of them and leaves the other at rest.       *)
(***************************************************************************)
ColIdle ==
  /\ df = <<>>
  /\ technique = "CV"
  /\ columns = NoColumns
  /\ stage = "idle"
  /\ rows = 0
  /\ shown = NoPreview

ValIdle ==
  /\ metadata = EmptyRecord
  /\ report = NoReport
  /\ enriched = NoEnrichment
  /\ before = EmptyRecord
  /\ cursor = 0
  /\ edits = 0
  /\ again = NoReport
  /\ boxes = NotRendered

\* A validator built where the schema file is missing, as in the sources.
SchLoaded ==
  /\ resource = "missing"
  /\ validator = LoadSchema("missing")

\* The vocabulary before any call.
NoQuery == [op |-> "none", text |-> <<>>, category |-> ""]

NoAnswer == [status |-> "none", term |-> 0, terms |-> <<>>]

VocIdle ==
  /\ query = NoQuery
  /\ answer = NoAnswer

NoLookup == [op |-> "none", id |-> ""]

NoCandidate == [kind |-> "none", text |-> <<>>]

\* The registry, the identifier checks and the application at rest.
RegIdle ==
  /\ lookup = NoLookup
  /\ fetched = NoFound

IdIdle ==
  /\ candidate = NoCandidate
  /\ verdict = "none"

AppIdle ==
  /\ uploader = NoFile
  /\ session = FreshSession
  /\ page = FirstPage
  /\ bundle = NoBundle
  /\ uploads = 0

InitColumns ==
  ColInit /\ ValIdle /\ SchLoaded /\ VocIdle /\ RegIdle /\ IdIdle /\ AppIdle

SpecColumns == InitColumns /\ [][ColNext]_vars

InitValidate ==
  ValInit /\ ColIdle /\ SchLoaded /\ VocIdle /\ RegIdle /\ IdIdle /\ AppIdle

SpecValidate == InitValidate /\ [][ValNext]_vars

InitPreview ==
  PreviewInit /\ ValIdle /\ SchLoaded /\ VocIdle /\ RegIdle /\ IdIdle /\ AppIdle

InitSpellings ==
  SpelledInit /\ ValIdle /\ SchLoaded /\ VocIdle /\ RegIdle /\ IdIdle /\ AppIdle

SpecSpellings == InitSpellings /\ [][ColNext]_vars

SpecPreview == InitPreview /\ [][PreviewNext]_vars

\* The records of the schema-loading runs: the test records and every
\* record one key away from one of them.
OneKeyAway(md) ==
  {[md EXCEPT !.leaf[p] = v] :
     <<p, v>> \in {pv \in UNION {{p} \X LeafValues(p) : p \in LeafPaths} :
                    ParentIsMap(md, pv[1])}}
  \cup {WithSectionKind(md, s, kind) :
          <<s, kind>> \in {sk \in UNION {{s} \X SectionKinds(s) : s \in Sections} :
                            ParentIsMap(md, sk[1])}}

SampleRecords == BaseRecords \cup UNION {OneKeyAway(md) : md \in BaseRecords}

SchInit ==
  /\ resource \in SchemaResources
  /\ validator = NoValidator
  /\ metadata \in SampleRecords
  /\ report = NoReport
  /\ enriched = NoEnrichment
  /\ before = EmptyRecord
  /\ cursor = 0
  /\ edits = 0
  /\ again = NoReport
  /\ boxes = NotRendered

SchNext == Construct \/ Validate \/ ValidateAgain \/ RenderValidationResults

\* The records that are enriched and then validated: the sample records
\* under every technique name.
NamedRecords ==
  {IF ParentIsMap(md, "technique.name")
   THEN [md EXCEPT !.leaf["technique.name"] = v] ELSE md :
     md \in SampleRecords,
     v \in {Str(t) : t \in TechniqueTexts} \cup {AbsentV, Str(""), Num(7)}}

EnrichedInit ==
  /\ metadata \in NamedRecords
  /\ report = NoReport
  /\ enriched = NoEnrichment
  /\ before = EmptyRecord
  /\ cursor = 0
  /\ edits = 0
  /\ again = NoReport
  /\ boxes = NotRendered

EnrichedNext == Enrich \/ ValidateEnriched

InitSchema ==
  SchInit /\ ColIdle /\ VocIdle /\ RegIdle /\ IdIdle /\ AppIdle

SpecSchema == InitSchema /\ [][SchNext]_vars

\* The texts a caller spells a stored synonym as: the synonym itself, in
\* lower and in upper case, and each of these with "_" for " ".
Spellings(s) ==
  {s, LowerSeq(s), UpperSeq(s), ReplaceSpaces(s), ReplaceSpaces(LowerSeq(s)),
   ReplaceSpaces(UpperSeq(s))}

Synonyms ==
  UNION {{LocalTerms[i].synonyms[k] : k \in 1..Len(LocalTerms[i].synonyms)} :
           i \in 1..Len(LocalTerms)}

\* The texts suggestions are asked for, and the categories.
SuggestTexts ==
  {<<>>, <<"e">>, Chars("carbon"), UpperSeq(Chars("carbon")),
   Chars("electrode"), Chars("voltammetry"), Chars("GC"), Chars("CV"),
   Chars("Ag/AgCl"), Chars("platinum"), Chars("nitrate"),
   Chars("impedance spectroscopy")}

Categories ==
  {"", "techniques", "electrodes", "materials", "electrolytes", "unknown"}

Queries ==
  {[op |-> "match", text |-> t, category |-> ""] :
     t \in UNION {Spellings(Chars(syn)) : syn \in Synonyms}}
  \cup {[op |-> "suggest", text |-> t, category |-> c] :
          t \in SuggestTexts, c \in Categories}

VocInit ==
  /\ query \in Queries
  /\ answer = NoAnswer

\* emmo.validate_technique(text)
MatchTerm ==
  /\ query.op = "match"
  /\ answer.status = "none"
  /\ answer' = [status |-> "done", term |-> ValidateTechniqueOf(query.text),
                terms |-> <<>>]
  /\ UNCHANGED <<colVars, valVars, schVars, query, regVars, idVars, appVars>>

\* emmo.suggest_terms(text, category)
SuggestTerms ==
  /\ query.op = "suggest"
  /\ answer.status = "none"
  /\ answer' = [status |-> "done", term |-> 0,
                terms |-> SuggestTermsOf(query.text, query.category)]
  /\ UNCHANGED <<colVars, valVars, schVars, query, regVars, idVars, appVars>>

VocNext == MatchTerm \/ SuggestTerms

InitVocabulary ==
  VocInit /\ ColIdle /\ ValIdle /\ SchLoaded /\ RegIdle /\ IdIdle /\ AppIdle

SpecVocabulary == InitVocabulary /\ [][VocNext]_vars

(***************************************************************************)
(* The registry, asked about ids in it and ids not in it.                  *)
(***************************************************************************)

\* The ids the registry is asked about.
LookupIds ==
  {"CV", "DPV", "SWV", "EIS", "CA", "cv", "dpv", "swv", "eis", "ca", "Cv",
   " CV", "CV ", "", "LSV", "CP", "OCP", "Cyclic Voltammetry",
   "Chronoamperometry", "cyclic_voltammetry", "None", "Unknown technique"}

LookupOps ==
  {"get_technique_parameters", "get_default_values",
   "get_technique_description"}

RegInit ==
  /\ lookup \in {[op |-> o, id |-> i] : o \in LookupOps, i \in LookupIds}
  /\ fetched = NoFound

\* ElectrochemicalTechniques.get_technique_parameters(id)
GetTechniqueParameters ==
  /\ lookup.op = "get_technique_parameters"
  /\ fetched.status = "none"
  /\ fetched' = GetTechniqueParametersOf(lookup.id)
  /\ UNCHANGED <<colVars, valVars, schVars, vocVars, idVars, appVars, lookup>>

\* ElectrochemicalTechniques.get_default_values(id)
GetDefaultValues ==
  /\ lookup.op = "get_default_values"
  /\ fetched.status = "none"
  /\ fetched' = GetDefaultValuesOf(lookup.id)
  /\ UNCHANGED <<colVars, valVars, schVars, vocVars, idVars, appVars, lookup>>

\* ElectrochemicalTechniques.get_technique_description(id)
GetTechniqueDescription ==
  /\ lookup.op = "get_technique_description"
  /\ fetched.status = "none"
  /\ fetched' = GetTechniqueDescriptionOf(lookup.id)
  /\ UNCHANGED <<colVars, valVars, schVars, vocVars, idVars, appVars, lookup>>

RegNext ==
  GetTechniqueParameters \/ GetDefaultValues \/ GetTechniqueDescription

InitRegistry ==
  RegInit /\ ColIdle /\ ValIdle /\ SchLoaded /\ VocIdle /\ IdIdle /\ AppIdle

SpecRegistry == InitRegistry /\ [][RegNext]_vars

(***************************************************************************)
(* The identifier checks, called on texts built from a few groups.         *)
(***************************************************************************)

\* The groups ORCID candidates are made of.
OrcidGroups ==
  {<<"0", "0", "0", "0">>, <<"1", "8", "2", "5">>, <<"0", "0", "9", "X">>,
   <<"0", "0", "0", "Y">>, <<"0", "0", "0">>, <<"0", "0", "0", "0", "0">>,
   <<"U+0663", "0", "0", "0">>, <<"0", "0", "0", "U+0663">>,
   <<"0", "0", "0", "x">>}

InnerGroups ==
  {<<"0", "0", "0", "0">>, <<"1", "8", "2", "5">>, <<"0", "0", "9", "X">>,
   <<"0", "0", "0">>}

Affixes == {<<>>, <<" ">>, <<"U+000A">>}

OrcidCandidates ==
  {pre \o g1 \o sep \o g2 \o sep \o g3 \o sep \o g4 \o post :
     pre \in {<<>>, <<" ">>}, g1 \in OrcidGroups, g2 \in InnerGroups,
     g3 \in InnerGroups, g4 \in OrcidGroups, sep \in {<<"-">>, <<" ">>},
     post \in Affixes}
  \cup {<<>>, <<"n", "o", "t", "-", "a", "n", "-", "o", "r", "c", "i", "d">>}

\* The parts DOI candidates are made of.
DoiHeads ==
  {<<"1", "0", ".">>, <<"1", "0", "x">>, <<"1", "1", ".">>, <<"1", "0">>,
   <<"d", "o", "i", ":", "1", "0", ".">>, <<" ", "1", "0", ".">>}

DoiRegistrants ==
  {<<"1", "2", "3">>, <<"1", "0", "0", "0">>,
   <<"1", "2", "3", "4", "5", "6", "7", "8", "9">>,
   <<"1", "2", "3", "4", "5", "6", "7", "8", "9", "0">>,
   <<"a", "b", "c">>, <<"1", "2", "a", "4">>,
   <<"1", "2", "U+0663", "4">>, <<"U+FF10", "1", "2", "3">>, <<>>}

DoiSlashes == {<<"/">>, <<>>, <<"U+005C">>, <<"/", "/">>}

DoiSuffixes ==
  {<<>>, <<"x">>, <<"x", "y", "z", "1", "2", "3">>, <<"a", " ", "b">>,
   <<"a", "/", "b">>, <<"a", "U+000A">>, <<"a", "U+00A0", "b">>,
   <<"U+000A">>, <<" ">>, <<"j", "a", "0", "1", ".", "(", "2", ")">>}

DoiCandidates ==
  {h \o r \o sl \o sf :
     h \in DoiHeads, r \in DoiRegistrants, sl \in DoiSlashes,
     sf \in DoiSuffixes}
  \cup {<<"n", "o", "t", "-", "a", "-", "d", "o", "i">>}

IdInit ==
  /\ candidate \in
       {[kind |-> "orcid", text |-> t] : t \in OrcidCandidates}
       \cup {[kind |-> "doi", text |-> t] : t \in DoiCandidates}
  /\ verdict = "none"

\* validator.validate_orcid(text)
CallValidateOrcid ==
  /\ candidate.kind = "orcid"
  /\ verdict = "none"
  /\ verdict' = IF ValidateOrcid(candidate.text) THEN "true" ELSE "false"
  /\ UNCHANGED <<colVars, valVars, schVars, vocVars, regVars, appVars, candidate>>

\* validator.validate_doi(text)
CallValidateDoi ==
  /\ candidate.kind = "doi"
  /\ verdict = "none"
  /\ verdict' = IF ValidateDoi(candidate.text) THEN "true" ELSE "false"
  /\ UNCHANGED <<colVars, valVars, schVars, vocVars, regVars, appVars, candidate>>

IdNext == CallValidateOrcid \/ CallValidateDoi

InitIdentifiers ==
  IdInit /\ ColIdle /\ ValIdle /\ SchLoaded /\ VocIdle /\ RegIdle /\ AppIdle

SpecIdentifiers == InitIdentifiers /\ [][IdNext]_vars

InitEnriched ==
  EnrichedInit /\ ColIdle /\ SchLoaded /\ VocIdle /\ RegIdle /\ IdIdle /\ AppIdle

SpecEnriched == InitEnriched /\ [][EnrichedNext]_vars

InitApp ==
  AppInit /\ ColIdle /\ ValIdle /\ SchLoaded /\ VocIdle /\ RegIdle /\ IdIdle

SpecApp == InitApp /\ [][AppNext]_vars

(***************************************************************************)
(* Claims about column inference.                                          *)
(***************************************************************************)

CellsOf(table, name) ==
  (CHOOSE i \in 1..Len(table) : table[i].name = name).cells

\* C3: in one inference pass no column is assigned to more than one role
\* (the role map is injective).
C3_RoleMapInjective ==
  stage = "found" =>
    \A r1, r2 \in DOMAIN columns : columns[r1] = columns[r2] => r1 = r2

\* The first column, in table order, whose name matches a pattern of the
\* role and whose cells are numeric; 0 if there is none.
RECURSIVE FirstNumericMatch(_, _, _)
FirstNumericMatch(table, role, i) ==
  IF i > Len(table) THEN 0
  ELSE IF /\ \E k \in 1..Len(PatternList(role)) :
               Searched[table[i].name][role][k]
          /\ table[i].cells = "num"
       THEN i
       ELSE FirstNumericMatch(table, role, i + 1)

\* C4: a column is assigned to a role only if it is numeric-coercible: a
\* matching text column is skipped, and the role goes to the next matching
\* numeric column in table order or stays absent.
C4_OnlyNumericAssigned ==
  stage = "found" =>
    \A r \in Roles :
      LET i == FirstNumericMatch(df, r, 1)
      IN IF i = 0 THEN r \notin DOMAIN columns
         ELSE r \in DOMAIN columns /\ columns[r] = df[i].name

ScenarioA ==
  <<Column("Potential (V)", "num"), Column("Current (A)", "num"),
    Column("Cycle", "num")>>

\* C5: for the numeric table [Potential (V), Current (A), Cycle] and
\* technique CV the role map is exactly potential -> Potential (V),
\* current -> Current (A); every other role is absent.
C5_ScenarioA ==
  (stage = "found" /\ df = ScenarioA /\ technique = "CV") =>
    /\ DOMAIN columns = {"potential", "current"}
    /\ columns["potential"] = "Potential (V)"
    /\ columns["current"] = "Current (A)"

(***************************************************************************)
(* Claims about enrichment.                                                *)
(***************************************************************************)

\* C1: enrich does not mutate its input: after the call the caller's record,
\* its technique and experimental_setup sections included, is what it was
\* before the call; every addition is in the returned record only.
C1_EnrichKeepsInput == enriched.status # "none" => metadata = before

(***************************************************************************)
(* Claims about the validator.                                             *)
(***************************************************************************)

\* C2: in the FAIR pass every one of the 11 checks that fails emits exactly
\* one warning: the pass emits 11 minus the points earned warnings, and as
\* many confirmations as points earned.
C2_OneWarningPerFailedCheck ==
  report.status = "returned" =>
    LET fair == CheckFairCompliance(metadata)
    IN /\ Len(fair.warnings) = 11 - fair.score.num
       /\ Len(fair.recommendations) = fair.score.num

\* The mandatory fields, and the key by which an error message names one.
MandatoryPaths ==
  {"experiment_id", "technique.name", "experimental_setup.working_electrode",
   "experimental_setup.reference_electrode", "experimental_setup.electrolyte"}

KeyOf(p) ==
  CASE p = "experiment_id" -> "experiment_id"
    [] p = "technique.name" -> "name"
    [] p = "experimental_setup.working_electrode" -> "working_electrode"
    [] p = "experimental_setup.reference_electrode" -> "reference_electrode"
    [] p = "experimental_setup.electrolyte" -> "electrolyte"

NamesField(m, p) ==
  \/ m.fmt = RequiredFmt /\ m.arg = KeyOf(p)
  \/ p = "technique.name" /\ m.fmt = "Technique name is required"

\* C6: every mandatory field absent from the record is named by one of the
\* errors validate returns, also when several are absent at once.
C6_MissingMandatoryNamed ==
  report.status = "returned" =>
    \A p \in MandatoryPaths :
      ~Present(metadata, p) =>
        \E i \in 1..Len(report.errors) : NamesField(report.errors[i], p)

\* C7: validate never raises on a record that can be navigated: it returns
\* a report also when the technique section is a plain string and when
\* numeric technique parameters hold text.
C7_ValidateNeverRaises == report.status # "raised"

\* Every section is a mapping (or missing) and every technique parameter
\* is a number or a list of numbers (or missing).
WellTyped(md) ==
  /\ \A s \in Sections : md.sec[s] # "str"
  /\ \A p \in LeafPaths :
       ParentOf(p) = "technique.parameters" =>
         \/ md.leaf[p].k \in {"absent", "num"}
         \/ /\ md.leaf[p].k = "list"
            /\ \A i \in 1..Len(md.leaf[p].l) : md.leaf[p].l[i].k = "num"

InUnitRange(score) == score.den > 0 /\ 0 <= score.num /\ score.num <= score.den

PassedChecks(md) ==
  LET has(p) == Truthy(md.leaf[p])
  IN {c \in {"F1", "F2", "F3", "F4", "A1", "A2", "I1", "I2", "R1", "R2", "R3"} :
        CASE c = "F1" -> has("experiment_id")
          [] c = "F2" -> has("attribution.creator")
          [] c = "F3" -> has("technique.name") /\ has("technique.description")
          [] c = "F4" -> has("emmo_compliance.terms_used")
          [] c = "A1" -> md.leaf["dataset.format"]
                           \in {Str("CSV"), Str("JSON"), Str("TSV")}
          [] c = "A2" -> has("fair_compliance.accessible.access_protocol")
          [] c = "I1" -> has("schema_version")
          [] c = "I2" -> has("fair_compliance.interoperable.metadata_vocabulary")
          [] c = "R1" -> has("fair_compliance.reusable.license")
          [] c = "R2" -> has("attribution.institution")
          [] c = "R3" -> has("related_work.publication_doi")}

\* C9: fair_score is the number of passed checks of the fixed checklist of
\* 11 one-point checks, over 11, whatever the record.
C9_FairScoreIsPassedOverEleven ==
  report.status = "returned" =>
    /\ report.fair_score.den = 11
    /\ report.fair_score.num = Cardinality(PassedChecks(metadata))

C9_Witness ==
  /\ report.status = "returned"
  /\ Cardinality(PassedChecks(metadata)) = 9

CompletenessPaths ==
  {"technique.name", "experimental_setup.working_electrode",
   "experimental_setup.reference_electrode", "experimental_setup.electrolyte",
   "dataset.filename", "attribution.creator", "attribution.institution",
   "experimental_setup.temperature", "technique.parameters",
   "fair_compliance.reusable.license", "related_work.publication_doi"}

PresentCount(md) ==
  Cardinality({p \in CompletenessPaths : NestedTruthy(md, p)})

SummaryLines(ws) == {i \in 1..Len(ws) : ws[i].fmt \in SummaryFmts}

\* C10: the completeness score is the number of present fields of the
\* fixed list of 5 required and 6 recommended fields over 11, and exactly
\* one summary line is emitted: high iff 9 or more fields are present,
\* moderate iff 7 or 8, low iff 6 or fewer.
C10_CompletenessBuckets ==
  report.status = "returned" =>
    LET n == PresentCount(metadata)
        lines == SummaryLines(report.warnings)
    IN /\ report.completeness_score = [num |-> n, den |-> 11]
       /\ Cardinality(lines) = 1
       /\ \A i \in lines :
            report.warnings[i].fmt =
              IF n >= 9 THEN HighFmt
              ELSE IF n >= 7 THEN ModerateFmt
              ELSE LowFmt

C10_Witness ==
  /\ report.status = "returned"
  /\ PresentCount(metadata) \in {7, 8}
  /\ \E i \in 1..Len(report.warnings) : report.warnings[i].fmt = ModerateFmt

(***************************************************************************)
(* Claims about the passes of the validator.                               *)
(***************************************************************************)

\* C11: validate is the composition of its four passes in the order schema,
\* FAIR, completeness, technique: errors are the schema errors then the
\* technique errors; warnings are the schema, FAIR, completeness and
\* technique warnings in that order; info is the FAIR confirmations; the
\* two scores are those the FAIR and completeness passes return alone.
C11_ValidateComposesPasses ==
  report.status = "returned" =>
    LET schema == ValidateAgainstSchema(metadata)
        fair == CheckFairCompliance(metadata)
        completeness == AssessCompleteness(metadata)
        tech == ValidateTechniqueParameters(metadata)
    IN /\ report.errors = schema.errors \o tech.errors
       /\ report.warnings = schema.warnings \o fair.warnings
                              \o completeness.warnings \o tech.warnings
       /\ report.info = fair.recommendations
       /\ report.fair_score = fair.score
       /\ report.completeness_score = completeness.score

C11_Witness ==
  /\ report.status = "returned"
  /\ ValidateAgainstSchema(metadata).errors # <<>>
  /\ ValidateTechniqueParameters(metadata).errors # <<>>
  /\ ValidateTechniqueParameters(metadata).errors
       # ValidateAgainstSchema(metadata).errors
  /\ CheckFairCompliance(metadata).warnings # <<>>
  /\ CheckFairCompliance(metadata).recommendations # <<>>
  /\ report.info # <<>>
  /\ Len(report.errors) = 2

RecognisedTechniques == {Str("CV"), Str("EIS"), Str("DPV"), Str("SWV"), Str("CA")}

\* C12: the technique pass is a no-op for an unrecognised technique: for a
\* record whose technique.name is not CV, EIS, DPV, SWV or CA (missing and
\* invalid names included), whatever its parameters, the pass contributes
\* no error and no warning to the report.
C12_UnknownTechniqueNoOp ==
  (report.status = "returned"
     /\ Get(metadata, "technique.name") \notin RecognisedTechniques) =>
    /\ ValidateTechniqueParameters(metadata).errors = <<>>
    /\ ValidateTechniqueParameters(metadata).warnings = <<>>
    /\ report.errors = ValidateAgainstSchema(metadata).errors

HasMsg(msgs, fmt) == \E i \in 1..Len(msgs) : msgs[i].fmt = fmt

EisRangeFmt == "EIS frequency range should be [high, low]"
EisAmplitudeFmt == "EIS AC amplitude >0.1V may cause non-linear response"
DpvWidthFmt == "DPV pulse width <10ms may be too short"
SwvFrequencyFmt == "SWV frequency >1000Hz may be too high"
CaStepFmt == "CA step times <0.1s may be too short for steady-state"

\* The warnings of the four checkers that a report holds.
CheckerWarnings(ws) ==
  {f \in {EisRangeFmt, EisAmplitudeFmt, DpvWidthFmt, SwvFrequencyFmt, CaStepFmt} :
     HasMsg(ws, f)}

\* first <= second, for two numbers or two texts.
FirstLeqSecond(l) ==
  IF l[1].k = "num" /\ l[2].k = "num" THEN l[1].n <= l[2].n
  ELSE l[1].k = "str" /\ l[2].k = "str" /\ TextRank(l[1].s) <= TextRank(l[2].s)

\* The warnings the claim gives a record of technique tech.
ExpectedCheckerWarnings(md, tech) ==
  LET freq_range == Param(md, "frequency_range")
      ac_amplitude == Param(md, "ac_amplitude")
      pulse_width == Param(md, "pulse_width")
      frequency == Param(md, "frequency")
      step_times == Param(md, "step_times")
  IN CASE tech = "EIS" ->
            {f \in {EisRangeFmt} :
               /\ freq_range.k = "list"
               /\ Len(freq_range.l) >= 2
               /\ FirstLeqSecond(freq_range.l)}
            \cup {f \in {EisAmplitudeFmt} :
                    ac_amplitude.k = "num" /\ ac_amplitude.n > 100}
       [] tech = "DPV" ->
            {f \in {DpvWidthFmt} : pulse_width.k = "num" /\ pulse_width.n < 10}
       [] tech = "SWV" ->
            {f \in {SwvFrequencyFmt} :
               frequency.k = "num" /\ frequency.n > 1000000}
       [] tech = "CA" ->
            {f \in {CaStepFmt} :
               /\ step_times.k = "list"
               /\ \E i \in 1..Len(step_times.l) :
                    step_times.l[i].k = "num" /\ step_times.l[i].n < 100}

\* C14: the EIS, DPV, SWV and CA checkers never emit errors and warn
\* exactly at their thresholds, each on records of its own technique only:
\* EIS iff frequency_range lists two values with first <= second, and iff
\* ac_amplitude > 0.1; DPV iff pulse_width < 0.01; SWV iff frequency > 1000;
\* CA iff some step time < 0.1.
C14_CheckerThresholds ==
  \A tech \in {"EIS", "DPV", "SWV", "CA"} :
    (report.status = "returned"
       /\ Get(metadata, "technique.name") = Str(tech)) =>
      /\ report.errors = ValidateAgainstSchema(metadata).errors
      /\ CheckerWarnings(report.warnings) = ExpectedCheckerWarnings(metadata, tech)

C14_Witness ==
  /\ report.status = "returned"
  /\ Get(metadata, "technique.name") = Str("DPV")
  /\ Param(metadata, "frequency") = Num(1500000)
  /\ CheckerWarnings(report.warnings) = {}

(***************************************************************************)
(* Claims about schema loading.                                            *)
(***************************************************************************)
Unavailable == {"missing", "unreadable", "unparsable"}

\* C15: a schema file that is missing or cannot be read or parsed is never
\* a hard failure: the constructor succeeds and the validator holds the
\* embedded minimal schema, which is satisfied exactly by records whose
\* experiment_id, technique.name, working_electrode, reference_electrode
\* and electrolyte are all there (as strings), and validate then returns a
\* report for every well-typed record.
C15_SchemaFallback ==
  (resource \in Unavailable /\ validator.status # "none") =>
    /\ validator = [status |-> "constructed", schema |-> "minimal"]
    /\ (report.status # "none" /\ WellTyped(metadata)) =>
         /\ report.status = "returned"
         /\ HasMsg(report.warnings, SchemaValidMsg.fmt)
              <=> \A p \in MandatoryPaths : metadata.leaf[p].k = "str"
         /\ HasMsg(report.warnings, SchemaValidMsg.fmt)
              <=> ~\E i \in 1..Len(report.errors) :
                     report.errors[i].fmt
                       \in {RequiredFmt, NotStringFmt, NotObjectFmt}

C15_Witness ==
  /\ resource = "unparsable"
  /\ validator.schema = "minimal"
  /\ report.status = "returned"
  /\ HasMsg(report.errors, RequiredFmt)

(***************************************************************************)
(* Claims about the vocabulary.                                            *)
(***************************************************************************)

\* C16: synonym matching is case-insensitive and normalises underscores to
\* spaces: every spelling of a stored synonym that differs from it in
\* letter case or in "_" written for " " resolves to the term the synonym
\* itself resolves to.
C16_SynonymSpellings ==
  (query.op = "match" /\ answer.status = "done") =>
    \A syn \in Synonyms :
      query.text \in Spellings(Chars(syn)) =>
        answer.term = ValidateTechniqueOf(Chars(syn))

\* The terms of a category (every term when there is none), and those a
\* text matches: its lowercased form is in the label, a synonym or the
\* definition of the term.
InCategory(category) ==
  IF category = "" THEN 1..Len(LocalTerms) ELSE ControlledVocabulary(category)

TextIn(text, field) == Contains(LowerSeq(Chars(field)), LowerSeq(text))

Matching(text, category) ==
  {i \in InCategory(category) :
     \/ TextIn(text, LocalTerms[i].label)
     \/ \E k \in 1..Len(LocalTerms[i].synonyms) :
          TextIn(text, LocalTerms[i].synonyms[k])
     \/ TextIn(text, LocalTerms[i].definition)}

\* The n least elements of a set of numbers, in increasing order.
RECURSIVE LeastOf(_, _)
LeastOf(S, n) ==
  IF S = {} \/ n = 0 THEN <<>>
  ELSE LET m == CHOOSE x \in S : \A y \in S : x <= y
       IN <<m>> \o LeastOf(S \ {m}, n - 1)

\* C17: suggest_terms(text, category) returns at most 5 terms in store
\* order: exactly the first five terms of the store, within the category
\* when one is given and none for an unknown category, whose label, some
\* synonym or definition contains the lowercased text; for 'carbon' in
\* 'materials' the result holds the glassy-carbon term.
C17_SuggestFirstFive ==
  (query.op = "suggest" /\ answer.status = "done") =>
    /\ Len(answer.terms) <= 5
    /\ answer.terms = LeastOf(Matching(query.text, query.category), 5)
    /\ query.category = "unknown" => answer.terms = <<>>
    /\ (query.text = Chars("carbon") /\ query.category = "materials") =>
         \E k \in 1..Len(answer.terms) :
           LocalTerms[answer.terms[k]].key = "glassy_carbon"

C17_Witness ==
  /\ query.op = "suggest"
  /\ answer.status = "done"
  /\ query.text = Chars("carbon")
  /\ query.category = "materials"
  /\ answer.terms # <<>>

(***************************************************************************)
(* Claims about the data preview.                                          *)
(***************************************************************************)
NoNumericColumn(table) == \A i \in 1..Len(table) : table[i].cells # "num"

\* C18: for a table without a numeric column the inference assigns no role
\* at all and the preview reports that it is unable to plot, which is not
\* what it reports for a table of zero rows that has numeric columns.
C18_UngraphableDistinct ==
  stage = "previewed" =>
    /\ NoNumericColumn(df) =>
         /\ columns = NoColumns
         /\ shown.chart = NoFigure
         /\ shown.message = UnableInfo
    /\ (rows = 0 /\ ~NoNumericColumn(df)) => shown.message # UnableInfo

ScenarioB == <<Column("E (V)", "num"), Column("I (A)", "num")>>

\* The two roles the plot of a technique reads, if it has a plot of its own.
RequiredRoles(tech) ==
  CASE tech \in {"CV", "DPV", "SWV"} -> <<"potential", "current">>
    [] tech = "EIS" -> <<"z_real", "z_imag">>
    [] tech = "CA" -> <<"time", "current">>
    [] OTHER -> <<>>

BothResolved(tech, cols) ==
  /\ RequiredRoles(tech) # <<>>
  /\ \A k \in 1..2 : RequiredRoles(tech)[k] \in DOMAIN cols

\* The positions of the numeric columns of a table.
NumericAt(table) == {i \in 1..Len(table) : table[i].cells = "num"}

\* The generic pair: the first two numeric columns in table order, the only
\* numeric column against the row index, or no figure.
GenericPair(table) ==
  LET at == NumericAt(table)
      first == CHOOSE i \in at : \A j \in at : i <= j
      second == CHOOSE i \in at \ {first} : \A j \in at \ {first} : i <= j
  IN IF Cardinality(at) >= 2 THEN <<table[first].name, table[second].name>>
     ELSE IF Cardinality(at) = 1 THEN <<"index", table[first].name>>
     ELSE <<>>

\* C24: the plot of technique T pairs the two roles T reads iff both are
\* resolved (CV, DPV, SWV: potential, current; EIS: z_real, z_imag; CA:
\* time, current); otherwise, and for any other technique, it pairs the
\* first two numeric columns, or the only numeric column with the row
\* index, or shows no figure when there is no numeric column.
C24_PlotFallbackPolicy ==
  stage = "previewed" =>
    IF BothResolved(technique, columns)
    THEN /\ shown.chart # NoFigure
         /\ shown.chart.title # "Data Preview"
         /\ shown.chart.x = columns[RequiredRoles(technique)[1]]
         /\ shown.chart.y = columns[RequiredRoles(technique)[2]]
    ELSE IF GenericPair(df) = <<>> THEN shown.chart = NoFigure
    ELSE /\ shown.chart.title = "Data Preview"
         /\ <<shown.chart.x, shown.chart.y>> = GenericPair(df)

BaseTable(table) ==
  [i \in 1..Len(table) |-> Column(BaseOf(table[i].name), table[i].cells)]

\* C19: the numeric table [E (V), I (A)] resolves potential -> E (V) and
\* current -> I (A), and for every table the role-to-column assignments do
\* not change when names change in letter case only or get blanks around
\* them: they are those of the table under the plain names.
C19_SpellingTolerant ==
  stage = "found" =>
    /\ df = ScenarioB =>
         /\ "potential" \in DOMAIN columns /\ columns["potential"] = "E (V)"
         /\ "current" \in DOMAIN columns /\ columns["current"] = "I (A)"
    /\ LET plain == FindDataColumnsOf(BaseTable(df), technique)
       IN /\ DOMAIN columns = DOMAIN plain
          /\ \A r \in DOMAIN columns : BaseOf(columns[r]) = plain[r]

C19_Witness ==
  /\ stage = "found"
  /\ Len(df) = 2
  /\ df[1].name = "  I (A)  "
  /\ df[2].name = "POTENTIAL (V)"
  /\ "potential" \in DOMAIN columns
  /\ columns["potential"] = "POTENTIAL (V)"
  /\ "current" \in DOMAIN columns
  /\ columns["current"] = "  I (A)  "

(***************************************************************************)
(* Claims about repeated validation.                                       *)
(***************************************************************************)

InRegistry(id) == \E i \in 1..Len(GetTechniqueList) : GetTechniqueList[i] = id

\* C21: registry lookups are total: for every id of get_technique_list,
\* get_technique_parameters returns a non-empty mapping and
\* get_technique_description a non-empty text; for every other id they
\* return the empty mapping and "Unknown technique"; neither raises.
C21_RegistryTotal ==
  fetched.status # "none" =>
    /\ fetched.status = "returned"
    /\ lookup.op = "get_technique_parameters" =>
         IF InRegistry(lookup.id) THEN fetched.params # <<>>
         ELSE fetched.params = <<>>
    /\ lookup.op = "get_technique_description" =>
         IF InRegistry(lookup.id) THEN fetched.text # ""
         ELSE fetched.text = "Unknown technique"

C21_Witness ==
  /\ lookup.op = "get_technique_description"
  /\ lookup.id = "cv"
  /\ ~InRegistry(lookup.id)
  /\ fetched.status = "returned"
  /\ fetched.text = "Unknown technique"


(***************************************************************************)
(* Claims about the identifier checks.  In the claims a digit is one of    *)
(* 0 to 9.                                                                 *)
(***************************************************************************)

\* Four groups of four characters with hyphens between them, all digits,
\* the very last character a digit or "X".
OrcidShape(s) ==
  /\ Len(s) = 19
  /\ \A i \in 1..Len(s) :
       IF i \in {5, 10, 15} THEN s[i] = "-"
       ELSE IF i = 19 THEN s[i] \in AsciiDigits \cup {"X"}
       ELSE s[i] \in AsciiDigits

\* C22: validate_orcid returns true iff the whole text is four
\* hyphen-separated groups of four digits, where the last character of the
\* last group may also be "X"; any other length, separator or character
\* gives false.
C22_OrcidFormat ==
  (candidate.kind = "orcid" /\ verdict # "none") =>
    (verdict = "true" <=> OrcidShape(candidate.text))


\* "10.", 4 to 9 digits, a slash, one or more characters that are not
\* whitespace.
DoiShape(s) ==
  \E n \in 4..9 :
    /\ Len(s) >= n + 5
    /\ SubSeq(s, 1, 3) = <<"1", "0", ".">>
    /\ \A i \in 4..(n + 3) : s[i] \in AsciiDigits
    /\ s[n + 4] = "/"
    /\ \A i \in (n + 5)..Len(s) : s[i] \notin Whitespace

\* C23: validate_doi returns true iff the whole text is "10." followed by
\* 4 to 9 digits, one slash, and one or more non-whitespace characters; a
\* prefix before "10.", a registrant part that is not all digits, or
\* whitespace in the suffix gives false.
C23_DoiFormat ==
  (candidate.kind = "doi" /\ verdict # "none") =>
    (verdict = "true" <=> DoiShape(candidate.text))


(***************************************************************************)
(* Claims about the application workflow.                                  *)
(***************************************************************************)

\* C25: the metadata of a bundle was generated from the upload that is
\* bundled as its data file: the stored metadata never belongs to an
\* earlier upload than the stored uploaded file, so a file uploaded after
\* the metadata was generated is never bundled with the old metadata.
C25_BundleOfOneUpload ==
  /\ bundle # NoBundle => bundle.metadata.filename = bundle.data
  /\ session.metadata # NoStoredMetadata =>
       session.metadata.filename >= session.uploaded_file.id

\* C26: "Generate Metadata" is on the page only while the stored uploaded
\* file is one that was read as a non-empty table; an upload that was
\* empty or did not parse never enables the metadata and export steps.
C26_GenerateNeedsTable ==
  (page.generate_button \/ page.bundle_button) =>
    session.uploaded_file.kind \in {"table", "text_table"}


(***************************************************************************)
(* Claims about what is shown for a report.                                *)
(***************************************************************************)

\* C27: the warnings of a report of validate_metadata are never empty: the
\* completeness pass always adds its summary line (and the schema pass its
\* confirmation when the record is valid), so render_validation_results
\* never shows "Metadata validation passed" for such a report.
C27_WarningsNeverEmpty ==
  /\ report.status = "returned" =>
       /\ report.warnings # <<>>
       /\ \E i \in 1..Len(report.warnings) :
            report.warnings[i].fmt \in SummaryFmts
       /\ SchemaViolations(metadata) = <<>> =>
            \E i \in 1..Len(report.warnings) :
              report.warnings[i] = SchemaValidMsg
  /\ boxes.rendered => ("warnings" \in boxes.shown /\ "passed" \notin boxes.shown)

C27_Witness ==
  /\ boxes.rendered
  /\ report.status = "returned"
  /\ report.errors = <<>>
  /\ boxes.shown = {"warnings"}


(***************************************************************************)
(* Claims about the enriched record.                                       *)
(***************************************************************************)

\* The vocabulary key of each technique id of the registry.
TermKeyOfTechnique(id) ==
  CASE id = "CV" -> "cyclic_voltammetry"
    [] id = "DPV" -> "differential_pulse_voltammetry"
    [] id = "SWV" -> "square_wave_voltammetry"
    [] id = "EIS" -> "electrochemical_impedance_spectroscopy"
    [] id = "CA" -> "chronoamperometry"

\* The registry id a text spells, in whatever letter case; "" if none.
SpelledTechnique(t) ==
  LET ids == {id \in DOMAIN TECHNIQUE_PARAMETERS :
                UpperSeq(Chars(t)) = Chars(id)}
  IN IF ids = {} THEN "" ELSE CHOOSE id \in ids : TRUE

F4Passed(rep) ==
  \E i \in 1..Len(rep.info) :
    rep.info[i] = Msg("F4: Uses controlled vocabulary (EMMO)", "")

\* C28: on the record enrich returns, the F4 check passes iff the technique
\* name of the record matches a vocabulary term; every technique id of the
\* registry matches its technique term in any letter case, so F4 passes for
\* every registry technique, and fails for a name that matches no term
\* although the enrichment section is there.
C28_F4FollowsMatch ==
  /\ \A t \in TechniqueTexts :
       SpelledTechnique(t) # "" =>
         /\ MatchedTerm[t] # 0
         /\ LocalTerms[MatchedTerm[t]].key = TermKeyOfTechnique(SpelledTechnique(t))
  /\ (enriched.status = "returned" /\ report.status = "returned") =>
       LET name == before.leaf["technique.name"]
           text == name.k = "str" /\ name.s # ""
           matches == IF text THEN MatchedTerm[name.s] # 0 ELSE FALSE
           registry == IF text THEN SpelledTechnique(name.s) # "" ELSE FALSE
       IN /\ enriched.record.sec["emmo_compliance"] = "map"
          /\ F4Passed(report) <=> matches
          /\ registry => F4Passed(report)

C28_Witness ==
  /\ enriched.status = "returned"
  /\ report.status = "returned"
  /\ before.leaf["technique.name"] = Str("eIS")
  /\ F4Passed(report)


(***************************************************************************)
(* Claims about the scores as functions of the record.                     *)
(***************************************************************************)

\* r2 is r with fields added that are absent or empty in r: no non-empty
\* value of r is changed and no mapping of r is removed.
Extends(r, r2) ==
  /\ r2 # r
  /\ \A p \in LeafPaths : Truthy(r.leaf[p]) => r2.leaf[p] = r.leaf[p]
  /\ \A s \in Sections : r.sec[s] = "map" => r2.sec[s] = "map"

ScoreLeq(a, b) == a.num * b.den <= b.num * a.den

\* C30: both scores are monotone in the content of the record: when a
\* well-typed record is extended only by fields that were absent or empty,
\* neither its FAIR score nor its completeness score goes down.
C30_ScoresMonotone ==
  [][(WellTyped(metadata) /\ WellTyped(metadata')
        /\ Extends(metadata, metadata')) =>
       /\ ScoreLeq(CheckFairCompliance(metadata).score,
                   CheckFairCompliance(metadata').score)
       /\ ScoreLeq(AssessCompleteness(metadata).score,
                   AssessCompleteness(metadata').score)]_vars

C30_Witness ==
  /\ edits > 0
  /\ WellTyped(metadata)
  /\ \E b \in BaseRecords :
       /\ Extends(b, metadata)
       /\ ~ScoreLeq(CheckFairCompliance(metadata).score,
                    CheckFairCompliance(b).score)
       /\ ~ScoreLeq(AssessCompleteness(metadata).score,
                    AssessCompleteness(b).score)


====
